---- MODULE Spec2Model ----
(***************************************************************************)
(* Delivery lifecycle of a Distribution Authorization (DA): submission,    *)
(* the manifest worker (activation / end-of-license deactivation), the     *)
(* delivery worker (DeliveryOrchestratorService.process_delivery_for_da)   *)
(* and the FileDeliveryService tracker / status roll-up.                   *)
(*                                                                         *)
(* Time is a natural number; one unit stands for 900 seconds, so the       *)
(* orchestrator's fallback Manifest_Frequency of 1800 s is 2 units.        *)
(* Strings that the code slices (folder paths, filenames) are sequences of *)
(* one-character tokens, so startswith / endswith are computed as the code *)
(* computes them.  Dictionaries are records; dict.get(k, d) is Get.        *)
(***************************************************************************)
EXTENDS Integers, Sequences, FiniteSets, TLC

\* ------------------------------------------------------------------ bounds
MaxTime == 3
MaxVersion == 2
MaxFreq == 1
MaxSends == 2
MaxApiCalls == 2
MaxReceives == 2
MaxAssetVersion == 3
MaxRows == 2
MaxCopyFailures == 1

\* fallback Manifest_Frequency (1800 s) in model time units
DEFAULT_MANIFEST_FREQUENCY == 2

\* --------------------------------------------------------------- universes
DAIds == {"d1"}
AssetIds == {"A1", "A2"}
CompIds == {"C1", "C2"}
Licensees == {"PrimeVideo", "Other"}

NoDate == -1
Times == 0..MaxTime
Versions == 1..MaxVersion
NoRec == [none |-> TRUE]

\* the sort keys a file-delivery item can be stored under: Asset_Id is a string
TrackerKeys == AssetIds \cup {""}

\* the partition keys of the file-delivery table: the DAs submitted here and
\* another DA of the same title, tracked by its own deliveries
OtherDa == "d2"
TrackerDAs == DAIds \cup {OtherDa}

TITLE_ID == <<"T">>
VERSION_ID == <<"V">>

\* --------------------------------------------------------- string helpers
\* str.startswith
StartsWith(s, p) ==
    /\ Len(p) <= Len(s)
    /\ SubSeq(s, 1, Len(p)) = p

\* str.endswith
EndsWith(s, p) ==
    /\ Len(p) <= Len(s)
    /\ SubSeq(s, Len(s) - Len(p) + 1, Len(s)) = p

\* s[len(p):]
DropFirst(s, n) == SubSeq(s, n + 1, Len(s))

\* s[:-n]; s[:-0] is s[:0], the empty string
DropLast(s, n) == IF n = 0 THEN << >> ELSE SubSeq(s, 1, Len(s) - n)

RECURSIVE LStripSlash(_)
LStripSlash(s) ==
    IF s # <<>> /\ Head(s) = "/" THEN LStripSlash(Tail(s)) ELSE s

RECURSIVE RStripSlash(_)
RStripSlash(s) ==
    IF s # <<>> /\ s[Len(s)] = "/" THEN RStripSlash(DropLast(s, 1)) ELSE s

\* str.strip('/')
StripSlash(s) == RStripSlash(LStripSlash(s))

\* str.replace('\\', '/')
RECURSIVE ReplaceBackslashes(_)
ReplaceBackslashes(s) ==
    IF s = << >> THEN << >>
    ELSE << IF Head(s) = "\\" THEN "/" ELSE Head(s) >> \o ReplaceBackslashes(Tail(s))

\* dict.get(key, default)
Get(d, k, default) == IF k \in DOMAIN d THEN d[k] ELSE default

\* [f"{title_id}.{version_id}/", f"{title_id}_{version_id}/"]
PrefixCandidates ==
    << TITLE_ID \o <<".">> \o VERSION_ID \o <<"/">>,
       TITLE_ID \o <<"_">> \o VERSION_ID \o <<"/">> >>

\* the loop "for prefix in prefix_candidates: if startswith: strip; break"
StripTitlePrefix(path) ==
    IF StartsWith(path, PrefixCandidates[1])
    THEN DropFirst(path, Len(PrefixCandidates[1]))
    ELSE IF StartsWith(path, PrefixCandidates[2])
         THEN DropFirst(path, Len(PrefixCandidates[2]))
         ELSE path

\* ------------------------------------------------ read-only configuration
\* component-config table: ComponentId -> "Folder Structure"
ComponentConfig ==
    [c \in CompIds |->
        IF c = "C1" THEN <<"a">> ELSE <<"a", "/", "b">>]

\* asset catalog items (one item per ingested revision, keyed by AssetId):
\* Filename, Folder_Path (the full key), Version and Checksum of each item
AssetFilename ==
    [a \in AssetIds |-> IF a = "A1" THEN <<"f">> ELSE <<"g">>]

AssetFolderPath ==
    [a \in AssetIds |->
        IF a = "A1"
        THEN <<"T", ".", "V", "/", "a", "/", "f">>
        ELSE <<"T", "_", "V", "/", "a", "/", "b", "/", "g">>]

AssetVersion ==
    [a \in AssetIds |-> IF a = "A1" THEN 1 ELSE 2]

AssetChecksum ==
    [a \in AssetIds |-> IF a = "A1" THEN 1 ELSE 2]

\* licensee queue mapping of SQSService
QueueUrlForLicensee(l) == IF l = "PrimeVideo" THEN "primevideo-queue" ELSE ""

\* ------------------------------------------------------------------- state
VARIABLES
    now,            \* wall clock
    daTable,        \* DA table: ID -> record | NoRec
    compTable,      \* component table: ID -> Component_ID -> record | NoRec
    tracker,        \* file-delivery table: DA_ID -> Asset_Id -> row | NoRec
    catalog,        \* asset table: set of AssetIds that have an item
    stored,         \* asset-repository bucket: AssetIds whose key is present
    licenseeTable,  \* licensee table: Licensee_ID -> record | NoRec
    schedules,      \* EventBridge schedules by name
    deliveryQueue,  \* delivery-tracking queue: da_ids with a message waiting
    pendingNext,    \* delivery worker between send and _update_next_manifest_check
    sentLog,        \* per DA, the times at which a manifest was transmitted
    apiCalls,     \* number of direct FileDeliveryService calls made
    poll,           \* a poll loop (start_polling) and the queue it polls
    assetInfo,      \* asset-info table as the ingest side writes it: set of items
    titleInfo,      \* title table: (Title_ID, Version_ID) -> item | NoRec
    package,        \* an uploaded package and what the validation tick made of it
    submission,     \* a DA submission handed to a processor, not yet processed
    jobs,           \* watermark-job table: job_id -> record | NoRec
    untransmitted,  \* per DA, what a delivery tick counted and did not transmit
    workers,        \* concurrent callers: each one's position and local values
    last            \* the operation that produced this state and its result

vars == << now, daTable, compTable, tracker, catalog, stored, licenseeTable,
           schedules, deliveryQueue, pendingNext, sentLog, apiCalls, poll,
           assetInfo, titleInfo, package, submission, jobs, untransmitted,
           workers, last >>

NoFreq == 0
Frequencies == 1..MaxFreq
LicenseeRecs == {NoRec} \cup {[Manifest_Frequency |-> f] : f \in Frequencies \cup {NoFreq}}

\* ----------------------------------------------- FileDeliveryService reads
\* _get_file_tracker
GetFileTracker(trk, da_id, asset_id) ==
    IF asset_id = "" THEN NoRec ELSE trk[da_id][asset_id]

\* get_files_for_da: the Asset_Ids that have a row under the DA
FilesForDa(trk, da_id) == {a \in TrackerKeys : trk[da_id][a] # NoRec}

\* get_files_by_component
FilesByComponent(trk, da_id, component_id) ==
    {a \in FilesForDa(trk, da_id) : trk[da_id][a].Component_ID = component_id}

\* _get_components_for_da
ComponentsForDa(cmp, da_id) == {c \in CompIds : cmp[da_id][c] # NoRec}

\* the filename-stripping step shared by _infer_component_id and _build_asset_data
StripFilename(folder_path, filename) ==
    IF EndsWith(folder_path, <<"/">> \o filename)
    THEN DropLast(folder_path, Len(filename) + 1)
    ELSE IF EndsWith(folder_path, filename)
         THEN RStripSlash(DropLast(folder_path, Len(filename)))
         ELSE folder_path

\* variant: any prefix matches, '/'-bounded or not
InferMatchesAnyPrefix(normalized_path, folder_structure) ==
    StartsWith(normalized_path, folder_structure)

\* the match test of _infer_component_id: exact, or prefix followed by '/'
InferMatches(normalized_path, folder_structure) ==
    \/ normalized_path = folder_structure
    \/ StartsWith(normalized_path, folder_structure \o <<"/">>)

\* item['Folder Structure'].replace('\\', '/').strip('/') of a configured component
FolderStructure(c) == StripSlash(ReplaceBackslashes(ComponentConfig[c]))

\* _infer_component_id: longest matching configured folder, else UNKNOWN
InferComponentId(asset) ==
    LET folder_path == StripFilename(
                            StripSlash(ReplaceBackslashes(Get(asset, "Folder_Path", <<>>))),
                            Get(asset, "Filename", <<>>))
        normalized_path == StripTitlePrefix(folder_path)
        matching == {c \in CompIds :
                        InferMatches(normalized_path, FolderStructure(c))}
    IN IF matching = {} THEN "UNKNOWN"
       ELSE CHOOSE c \in matching :
                \A o \in matching : Len(FolderStructure(o)) <= Len(FolderStructure(c))

\* _get_expected_assets_for_component: catalog items whose stripped
\* Folder_Path starts with the component's folder structure
ExpectedAssetsForComponent(cat, component_id) ==
    IF component_id \notin CompIds THEN {}
    ELSE {a \in cat :
            StartsWith(StripTitlePrefix(StripSlash(AssetFolderPath[a])),
                       StripSlash(ComponentConfig[component_id]))}

\* ---------------------------------------------- FileDeliveryService writes
\* variant: an equal version also counts as a revision
FileStatusCalcGe(new_version, old_version) ==
    IF new_version >= old_version THEN "REVISED" ELSE "NO_CHANGE"

\* the version comparison of track_file_delivery for an existing row
FileStatusCalc(new_version, old_version) ==
    IF new_version > old_version THEN "REVISED" ELSE "NO_CHANGE"

\* the update_item of track_file_delivery on an existing row
TrackUpdatedRow(existing, asset, current_time) ==
    LET new_version == Get(asset, "Version", 1)
        file_status_calc == FileStatusCalc(new_version, Get(existing, "Version", 1))
    IN [existing EXCEPT
            !.File_Status = file_status_calc,
            !.Checksum = Get(asset, "Checksum", 0),
            !.Date_Last_Delivered = current_time,
            !.Version = new_version,
            !.Revision_Count = IF file_status_calc = "REVISED"
                               THEN existing.Revision_Count + 1
                               ELSE existing.Revision_Count]

\* the put_item of track_file_delivery when no row exists
TrackNewRow(asset, current_time) ==
    [ File_Status |-> "NEW",
      Version |-> Get(asset, "Version", 1),
      Checksum |-> Get(asset, "Checksum", 0),
      Revision_Count |-> 0,
      Component_ID |-> InferComponentId(asset),
      Original_Delivery_Date |-> current_time,
      Date_Last_Delivered |-> current_time ]

\* variant: the asset id is read from the key the orchestrator writes
TrackedAssetIdAsPassed(asset) == Get(asset, "Asset_Id", "")

\* the key track_file_delivery reads the asset id from
TrackedAssetId(asset) == Get(asset, "Asset_ID", "")

\* variant: the asset id is not validated
TrackFileDeliveryUnchecked(trk, da_id, asset, current_time) ==
    [raised |-> FALSE,
     trk |-> [trk EXCEPT ![da_id][Get(asset, "Asset_ID", "")] =
                TrackNewRow(asset, current_time)]]

\* track_file_delivery(da_id, asset, _): raised = the ValueError for an
\* empty asset id; trk = the file-delivery table afterwards
TrackFileDelivery(trk, da_id, asset, current_time) ==
    LET asset_id == TrackedAssetId(asset)
        existing == GetFileTracker(trk, da_id, asset_id)
    IN IF asset_id = ""
       THEN [raised |-> TRUE, trk |-> trk]
       ELSE [raised |-> FALSE,
             trk |-> [trk EXCEPT ![da_id][asset_id] =
                        IF existing # NoRec
                        THEN TrackUpdatedRow(existing, asset, current_time)
                        ELSE TrackNewRow(asset, current_time)]]

\* variant: every update counts as the first delivery
IsFirstDeliveryAlways(existing) == TRUE

\* is_first_delivery = 'Original_Delivery_Date' not in existing
IsFirstDelivery(existing) == existing.Original_Delivery_Date = NoDate

\* variant: COMPLETED without looking at Is_Active
ComponentStatusCalcNoActive(delivered_asset_ids, expected_asset_ids, is_active) ==
    IF delivered_asset_ids = {} THEN "PENDING"
    ELSE IF expected_asset_ids \subseteq delivered_asset_ids
         THEN "COMPLETED"
         ELSE "PARTIAL"

\* the status rule of update_component_delivery_status
ComponentStatusCalc(delivered_asset_ids, expected_asset_ids, is_active) ==
    IF delivered_asset_ids = {} THEN "PENDING"
    ELSE IF expected_asset_ids \subseteq delivered_asset_ids /\ is_active
         THEN "COMPLETED"
         ELSE "PARTIAL"

\* Is_Active as the status updates read it: da_info.get('Is_Active', False)
IsActiveOf(das, da_id) ==
    IF da_id \in DAIds /\ das[da_id] # NoRec THEN das[da_id].Is_Active ELSE FALSE

\* update_component_delivery_status: the component table afterwards
UpdateComponentDeliveryStatus(cmp, trk, das, cat, da_id, component_id, current_time) ==
    LET existing_component == cmp[da_id][component_id]
        delivered_asset_ids == FilesByComponent(trk, da_id, component_id)
        expected_asset_ids == ExpectedAssetsForComponent(cat, component_id)
        delivery_status == ComponentStatusCalc(delivered_asset_ids, expected_asset_ids,
                                               IsActiveOf(das, da_id))
        is_first_delivery == IsFirstDelivery(existing_component)
    IN IF existing_component = NoRec THEN cmp
       ELSE IF expected_asset_ids = {} THEN cmp
       ELSE [cmp EXCEPT ![da_id][component_id] =
                [existing_component EXCEPT
                    !.Delivery_Status = delivery_status,
                    !.Date_Last_Delivered = current_time,
                    !.Original_Delivery_Date =
                        IF is_first_delivery /\ delivered_asset_ids # {}
                        THEN current_time
                        ELSE existing_component.Original_Delivery_Date]]

\* variant: COMPLETED without looking at Is_Active
DaStatusCalcNoActive(component_statuses, is_active) ==
    IF \A st \in component_statuses : st = "PENDING" THEN "PENDING"
    ELSE IF \A st \in component_statuses : st = "COMPLETED"
         THEN "COMPLETED"
         ELSE "PARTIAL"

\* the status rule of update_da_delivery_status
DaStatusCalc(component_statuses, is_active) ==
    IF \A st \in component_statuses : st = "PENDING" THEN "PENDING"
    ELSE IF (\A st \in component_statuses : st = "COMPLETED") /\ is_active
         THEN "COMPLETED"
         ELSE "PARTIAL"

\* update_da_delivery_status: the DA table afterwards
UpdateDaDeliveryStatus(das, cmp, da_id, current_time) ==
    LET components == ComponentsForDa(cmp, da_id)
        component_statuses == {cmp[da_id][c].Delivery_Status : c \in components}
        da_info == das[da_id]
        \* a missing DA item reads as {} and update_item then creates the item;
        \* DA items are never deleted, so the handlers only reach this with one
        delivery_status == DaStatusCalc(component_statuses, IsActiveOf(das, da_id))
        is_first_delivery == IsFirstDelivery(da_info)
    IN IF components = {} \/ da_info = NoRec THEN das
       ELSE [das EXCEPT ![da_id] =
                [da_info EXCEPT
                    !.Delivery_Status = delivery_status,
                    !.Date_Last_Delivered = current_time,
                    !.Original_Delivery_Date =
                        IF is_first_delivery
                           /\ \E st \in component_statuses : st # "PENDING"
                        THEN current_time
                        ELSE da_info.Original_Delivery_Date]]

\* ---------------------------------------------------------- ManifestService
\* _get_component_folders: the non-empty configured folders of the DA's components
ComponentFolders(cmp, da_id) ==
    {StripSlash(ComponentConfig[c]) : c \in ComponentsForDa(cmp, da_id)} \ {<<>>}

\* _asset_exists_in_s3 for the (non-.mov) items of this catalog: a head_object
\* on the item's Folder_Path in the asset repository
AssetExistsInS3(st, a) == a \in st

\* _get_assets_for_title_and_components: the catalog items kept in the manifest
ManifestAssets(cmp, cat, st, da_id) ==
    {a \in cat :
        /\ \E comp_folder \in ComponentFolders(cmp, da_id) :
              StartsWith(StripTitlePrefix(StripSlash(AssetFolderPath[a])), comp_folder)
        /\ AssetExistsInS3(st, a)}

\* _determine_file_status on the tracker item the scan returned first
\* (existing_item = NoRec when the scan found none)
DetermineFileStatus(asset_id, existing_item, current_version) ==
    IF asset_id = "" THEN "New"
    ELSE IF existing_item = NoRec THEN "New"
    ELSE IF existing_item.File_Status = "NEW" THEN "New"
    ELSE IF current_version > existing_item.Version THEN "Revised"
    ELSE "No Change"

\* the scan of the file-delivery table by Asset_Id alone: rows of every DA
\* match, and items[0] is whichever the scan returns first
ScanPicks(trk) ==
    {pick \in [AssetIds -> TrackerDAs \cup {"none"}] :
        \A a \in AssetIds :
            IF \E d \in TrackerDAs : trk[d][a] # NoRec
            THEN pick[a] \in TrackerDAs /\ trk[pick[a]][a] # NoRec
            ELSE pick[a] = "none"}

\* file_status of every manifest asset under one outcome of the scans
ManifestStatuses(trk, assets, pick) ==
    [a \in assets |->
        DetermineFileStatus(a,
                            IF pick[a] = "none" THEN NoRec ELSE trk[pick[a]][a],
                            AssetVersion[a])]

\* _build_asset_data: the manifest entry of a catalog item
BuildAssetData(a, file_status) ==
    LET folder_path == StripFilename(StripSlash(AssetFolderPath[a]), AssetFilename[a])
    IN [ asset_id |-> a,
         file_status |-> file_status,
         file_name |-> AssetFilename[a],
         folder_path |-> folder_path,
         file_path |-> folder_path \o <<"/">> \o AssetFilename[a],
         checksum |-> AssetChecksum[a],
         revision_id |-> AssetVersion[a] ]

\* generate_manifest raises when the DA or its licensee record is missing
\* (the title record is written at submission and never deleted)
ManifestRaises(das, lic, da_id) ==
    \/ das[da_id] = NoRec
    \/ lic[das[da_id].Licensee_ID] = NoRec

\* ----------------------------------------------- DeliveryOrchestratorService
\* the asset_dict process_delivery_for_da hands to track_file_delivery
OrchestratorAssetDict(asset_data) ==
    [ Asset_Id |-> asset_data.asset_id,
      Filename |-> asset_data.file_name,
      Checksum |-> asset_data.checksum,
      Title_ID |-> TITLE_ID,
      Version_ID |-> VERSION_ID,
      Version |-> asset_data.revision_id,
      Folder_Path |-> asset_data.file_path ]

\* the tracking loop of process_delivery_for_da; an exception of
\* track_file_delivery is logged and the loop goes on
RECURSIVE TrackManifestAssets(_, _, _, _)
TrackManifestAssets(trk, da_id, assets, current_time) ==
    IF assets = {} THEN trk
    ELSE LET a == CHOOSE x \in assets : TRUE
             r == TrackFileDelivery(trk, da_id,
                                    OrchestratorAssetDict(BuildAssetData(a, "New")),
                                    current_time)
         IN TrackManifestAssets(r.trk, da_id, assets \ {a}, current_time)

\* the component loop of process_delivery_for_da
RECURSIVE UpdateAllComponents(_, _, _, _, _, _, _)
UpdateAllComponents(cmp, trk, das, cat, da_id, comps, current_time) ==
    IF comps = {} THEN cmp
    ELSE LET c == CHOOSE x \in comps : TRUE
         IN UpdateAllComponents(
                UpdateComponentDeliveryStatus(cmp, trk, das, cat, da_id, c, current_time),
                trk, das, cat, da_id, comps \ {c}, current_time)

\* variant: the window is open at both ends
IsWithinDeliveryWindowStrict(da_info, current_dt) ==
    IF da_info.Earliest_Delivery_Date = NoDate \/ da_info.License_Period_End = NoDate
    THEN FALSE
    ELSE /\ da_info.Earliest_Delivery_Date < current_dt
         /\ current_dt < da_info.License_Period_End

\* _is_within_delivery_window
IsWithinDeliveryWindow(da_info, current_dt) ==
    IF da_info.Earliest_Delivery_Date = NoDate \/ da_info.License_Period_End = NoDate
    THEN FALSE
    ELSE /\ da_info.Earliest_Delivery_Date <= current_dt
         /\ current_dt <= da_info.License_Period_End

\* variant: no frequency gate
ShouldSendManifestAlways(da_info, current_dt) == TRUE

\* _should_send_manifest
ShouldSendManifest(da_info, current_dt) ==
    IF da_info.Next_Manifest_Check = NoDate THEN TRUE
    ELSE current_dt >= da_info.Next_Manifest_Check

\* the frequency _update_next_manifest_check reads from the licensee table
ManifestFrequency(licensee_item) ==
    IF licensee_item = NoRec THEN DEFAULT_MANIFEST_FREQUENCY
    ELSE IF licensee_item.Manifest_Frequency = NoFreq THEN DEFAULT_MANIFEST_FREQUENCY
    ELSE licensee_item.Manifest_Frequency

\* variant: the next check is due at once
NextManifestCheckNow(licensee_item, current_dt) == current_dt

\* _update_next_manifest_check: the value written to Next_Manifest_Check
NextManifestCheck(licensee_item, current_dt) ==
    current_dt + ManifestFrequency(licensee_item)

\* send_manifest_to_licensee: transport_ok is the outcome of sqs send_message
SendManifestToLicensee(licensee_id, transport_ok) ==
    IF QueueUrlForLicensee(licensee_id) = "" THEN FALSE ELSE transport_ok

\* the count of manifest assets whose file_status is New or Revised
NewOrRevisedCount(statuses) ==
    Cardinality({a \in DOMAIN statuses : statuses[a] \in {"New", "Revised"}})

\* _enrich_manifest_with_file_status: licensee-facing status of a manifest asset
EnrichedFileStatus(trk, da_id, asset_id) ==
    LET file_status == IF trk[da_id][asset_id] = NoRec THEN "NEW"
                       ELSE trk[da_id][asset_id].File_Status
    IN IF file_status = "NO_CHANGE" THEN "No Change"
       ELSE IF file_status = "REVISED" THEN "Revised"
       ELSE "New"

\* -------------------------------------------------------------------- Init
\* the keys of the title table
TitleIds == {"T1"}
VersionIds == {"V1", "V2"}
TitleKeys == TitleIds \X VersionIds

\* the job_ids uuid4 draws here
MaxJobs == 2
JobIds == 1..MaxJobs

\* no package has been uploaded
NoPackage == [status |-> "none"]

\* the messages sent to the queue a poll loop reads
PollMsgs == {"m1", "m2"}

\* the record of a step: the operation, its subject, its outcome and the
\* messages it sent to the dead-letter queue
Result(op, da_id, outcome) ==
    [op |-> op, da |-> da_id, outcome |-> outcome, dlq |-> <<>>]

\* the body send_to_dlq builds from the manifest worker's arguments
DlqMessage(da_id, licensee_id, error_reason) ==
    [ original_message |-> [da_id |-> da_id, licensee_id |-> licensee_id],
      error_reason |-> error_reason ]

\* the concurrent callers of one service method, and a caller at rest
WorkerIds == {"w1", "w2"}
Idle == [pc |-> "idle"]

Init ==
    /\ now = 0
    /\ daTable = [d \in DAIds |-> NoRec]
    /\ compTable = [d \in DAIds |-> [c \in CompIds |-> NoRec]]
    /\ tracker = [d \in TrackerDAs |-> [a \in TrackerKeys |-> NoRec]]
    /\ catalog = {}
    /\ stored = {}
    /\ licenseeTable = [l \in Licensees |-> [Manifest_Frequency |-> NoFreq]]
    /\ schedules = {}
    /\ deliveryQueue = {}
    /\ pendingNext = "none"
    /\ sentLog = [d \in DAIds |-> <<>>]
    /\ apiCalls = 0
    /\ poll = [ queue |-> [m \in PollMsgs |-> "absent"],
                cur |-> "none",
                running |-> TRUE,
                receives |-> [m \in PollMsgs |-> 0] ]
    /\ assetInfo = {}
    /\ titleInfo = [k \in TitleKeys |-> NoRec]
    /\ package = NoPackage
    /\ submission = NoRec
    /\ jobs = [j \in JobIds |-> NoRec]
    /\ untransmitted = [d \in DAIds |-> NoRec]
    /\ workers = [w \in WorkerIds |-> Idle]
    /\ last = Result("init", "none", "none")

\* ------------------------------------------------------------- environment
\* the wall clock advances
Advance ==
    /\ now < MaxTime
    /\ now' = now + 1
    /\ last' = Result("environment", "none", "none")
    /\ UNCHANGED << workers, untransmitted, jobs, submission, poll, assetInfo, titleInfo, package, daTable, compTable, tracker, catalog, stored, licenseeTable,
                    schedules, deliveryQueue, pendingNext, sentLog, apiCalls >>

\* an accepted package: put_asset_info writes the item and the file is
\* promoted to the asset repository
IngestAsset(a) ==
    /\ a \notin catalog
    /\ catalog' = catalog \cup {a}
    /\ stored' = stored \cup {a}
    /\ last' = Result("environment", "none", "none")
    /\ UNCHANGED << workers, untransmitted, jobs, submission, poll, assetInfo, titleInfo, package, now, daTable, compTable, tracker, licenseeTable, schedules,
                    deliveryQueue, pendingNext, sentLog, apiCalls >>

\* a file disappears from the asset repository
StorageDelete(a) ==
    /\ a \in stored
    /\ stored' = stored \ {a}
    /\ last' = Result("environment", "none", "none")
    /\ UNCHANGED << workers, untransmitted, jobs, submission, poll, assetInfo, titleInfo, package, now, daTable, compTable, tracker, catalog, licenseeTable,
                    schedules, deliveryQueue, pendingNext, sentLog, apiCalls >>

\* the licensee configuration is edited (read-only for the workers); only
\* the records some DA refers to are ever read
ConfigureLicensee(l, rec) ==
    /\ licenseeTable[l] # rec
    /\ \E d \in DAIds : daTable[d] # NoRec /\ daTable[d].Licensee_ID = l
    /\ licenseeTable' = [licenseeTable EXCEPT ![l] = rec]
    /\ last' = Result("environment", "none", "none")
    /\ UNCHANGED << workers, untransmitted, jobs, submission, poll, assetInfo, titleInfo, package, now, daTable, compTable, tracker, catalog, stored, schedules,
                    deliveryQueue, pendingNext, sentLog, apiCalls >>

\* -------------------------------------------------------------- submission
\* create_da_record
NewDaRecord(licensee_id, earliest, license_end) ==
    [ Licensee_ID |-> licensee_id,
      Earliest_Delivery_Date |-> earliest,
      License_Period_End |-> license_end,
      Is_Active |-> FALSE,
      Delivery_Status |-> "PENDING",
      Original_Delivery_Date |-> NoDate,
      Date_Last_Delivered |-> NoDate,
      Next_Manifest_Check |-> NoDate ]

\* create_component
NewComponentRecord(required_flag) ==
    [ Required_Flag |-> required_flag,
      Delivery_Status |-> "PENDING",
      Original_Delivery_Date |-> NoDate,
      Date_Last_Delivered |-> NoDate ]

ManifestSchedule(da_id) == <<"manifest", da_id>>
ExceptionSchedule(da_id) == <<"exception", da_id>>

\* CSVProcessor.process on an accepted submission; required = the components
\* whose 'Required Flag' cell is TRUE. License_Period_End is
\* required and parseable; Earliest_Delivery_Date and
\* Exception_Notification_Date are absent when neither supplied nor derivable
SubmitDA(d, licensee_id, earliest, license_end, comps, required, has_exception_date) ==
    /\ daTable[d] = NoRec
    /\ daTable' = [daTable EXCEPT ![d] = NewDaRecord(licensee_id, earliest, license_end)]
    /\ compTable' = [compTable EXCEPT ![d] =
                        [c \in CompIds |->
                            IF c \notin comps THEN NoRec
                            ELSE NewComponentRecord(IF c \in required THEN "TRUE" ELSE "FALSE")]]
    /\ schedules' = schedules
                    \cup (IF earliest # NoDate THEN {ManifestSchedule(d)} ELSE {})
                    \cup (IF has_exception_date THEN {ExceptionSchedule(d)} ELSE {})
    /\ last' = Result("submit", d, "created")
    /\ UNCHANGED << workers, untransmitted, jobs, submission, poll, assetInfo, titleInfo, package, now, tracker, catalog, stored, licenseeTable, deliveryQueue,
                    pendingNext, sentLog, apiCalls >>

\* ---------------------------------------------------------- manifest worker
\* variant: the license has ended only after License_Period_End
ManifestGateAfterEnd(da_info, current_time) ==
    IF da_info.License_Period_End # NoDate /\ current_time > da_info.License_Period_End
    THEN "license_ended"
    ELSE IF da_info.Earliest_Delivery_Date # NoDate
            /\ current_time < da_info.Earliest_Delivery_Date
         THEN "before_earliest"
         ELSE "proceed"

\* the date checks of process_manifest_message, license end first
ManifestGate(da_info, current_time) ==
    IF da_info.License_Period_End # NoDate /\ current_time >= da_info.License_Period_End
    THEN "license_ended"
    ELSE IF da_info.Earliest_Delivery_Date # NoDate
            /\ current_time < da_info.Earliest_Delivery_Date
         THEN "before_earliest"
         ELSE "proceed"

\* set_da_active / set_da_inactive
SetIsActive(das, da_id, active) == [das EXCEPT ![da_id].Is_Active = active]

\* what process_manifest_message does with one message
ManifestOutcome(d, has_ids) ==
    IF ~has_ids THEN "bad_message"
    ELSE IF daTable[d] = NoRec THEN "da_not_found"
    ELSE IF ManifestGate(daTable[d], now) # "proceed" THEN ManifestGate(daTable[d], now)
    ELSE IF ManifestRaises(daTable, licenseeTable, d) THEN "error"
    ELSE IF ManifestAssets(compTable, catalog, stored, d) = {} THEN "no_assets"
    ELSE "triggered"

\* process_manifest_message: has_ids = the message carries da_id and
\* licensee_id; queue_ok = the send to the delivery queue succeeded
ManifestTick(d, has_ids, queue_ok) ==
    LET outcome == ManifestOutcome(d, has_ids)
    IN /\ daTable' =
            IF outcome = "license_ended" THEN SetIsActive(daTable, d, FALSE)
            ELSE IF outcome \in {"error", "no_assets", "triggered"} /\ ~daTable[d].Is_Active
                 THEN SetIsActive(daTable, d, TRUE)
                 ELSE daTable
       /\ schedules' =
            IF outcome = "license_ended"
            THEN schedules \ {ManifestSchedule(d), ExceptionSchedule(d)}
            ELSE schedules
       /\ deliveryQueue' =
            IF outcome = "triggered" /\ queue_ok THEN deliveryQueue \cup {d}
            ELSE deliveryQueue
       /\ last' = [Result("manifest", d, outcome) EXCEPT !.dlq =
                        IF outcome = "error"
                        THEN << DlqMessage(d, daTable[d].Licensee_ID,
                                           "licensee_not_found") >>
                        ELSE << >>]
       /\ UNCHANGED << workers, untransmitted, jobs, submission, poll, assetInfo, titleInfo, package, now, compTable, tracker, catalog, stored, licenseeTable,
                       pendingNext, sentLog, apiCalls >>

\* process_manifest_message, step by step: one worker reads the DA record
\* and the clock
ManifestRead(w, d) ==
    /\ workers[w] = Idle
    /\ daTable[d] # NoRec
    /\ workers' = [workers EXCEPT ![w] =
                    [pc |-> "manifest_read", da |-> d, da_info |-> daTable[d],
                     current_time |-> now]]
    /\ last' = Result("manifest_read", d, w)
    /\ UNCHANGED << untransmitted, jobs, submission, poll, assetInfo, titleInfo, package, now, daTable, compTable, tracker, catalog, stored,
                    licenseeTable, schedules, deliveryQueue, pendingNext, sentLog, apiCalls >>

\* the rest of process_manifest_message for that worker: the date checks on
\* the values it read, set_da_inactive or set_da_active, generate_manifest
\* and the message to the delivery queue
ManifestAct(w, queue_ok) ==
    /\ workers[w].pc = "manifest_read"
    /\ LET d == workers[w].da
           gate == ManifestGate(workers[w].da_info, workers[w].current_time)
           outcome == IF gate # "proceed" THEN gate
                      ELSE IF ManifestRaises(daTable, licenseeTable, d) THEN "error"
                      ELSE IF ManifestAssets(compTable, catalog, stored, d) = {}
                           THEN "no_assets"
                           ELSE "triggered"
       IN /\ daTable' =
                IF outcome = "license_ended" THEN SetIsActive(daTable, d, FALSE)
                ELSE IF outcome \in {"error", "no_assets", "triggered"}
                        /\ ~workers[w].da_info.Is_Active
                     THEN SetIsActive(daTable, d, TRUE)
                     ELSE daTable
          /\ schedules' =
                IF outcome = "license_ended"
                THEN schedules \ {ManifestSchedule(d), ExceptionSchedule(d)}
                ELSE schedules
          /\ deliveryQueue' =
                IF outcome = "triggered" /\ queue_ok THEN deliveryQueue \cup {d}
                ELSE deliveryQueue
          /\ last' = [Result("manifest", d, outcome) EXCEPT !.dlq =
                            IF outcome = "error"
                            THEN << DlqMessage(d, daTable[d].Licensee_ID,
                                               "licensee_not_found") >>
                            ELSE << >>]
    /\ workers' = [workers EXCEPT ![w] = Idle]
    /\ UNCHANGED << untransmitted, jobs, submission, poll, assetInfo, titleInfo, package, now, compTable, tracker, catalog, stored, licenseeTable,
                    pendingNext, sentLog, apiCalls >>

\* ------------------------------------------------------ missing assets
\* _get_component_folder_structure
MissingAssetsFolderStructure(component_id) ==
    StripSlash(ReplaceBackslashes(ComponentConfig[component_id]))

\* MissingAssetsService._get_expected_assets_for_component
MissingAssetsExpected(cat, folder_structure) ==
    {a \in cat :
        StartsWith(StripTitlePrefix(StripSlash(ReplaceBackslashes(AssetFolderPath[a]))),
                   folder_structure)}

\* the keys present in the asset repository: a stored item lies at the key
\* the manifest generator heads, its Folder_Path
RepoKeys(st) == {StripSlash(ReplaceBackslashes(AssetFolderPath[a])) : a \in st}

\* the key _check_asset_in_s3 heads: f"{folder_path}/{filename}"
MissingAssetsS3Key(a) ==
    StripSlash(ReplaceBackslashes(AssetFolderPath[a])) \o << "/" >> \o AssetFilename[a]

\* _check_asset_in_s3 for the (non-.mov) items of this catalog
CheckAssetInS3(st, a) == MissingAssetsS3Key(a) \in RepoKeys(st)

\* _check_component_assets: the expected assets whose head_object fails
CheckComponentAssets(cat, st, component_id) ==
    LET folder_structure == MissingAssetsFolderStructure(component_id)
    IN IF folder_structure = << >> THEN {}
       ELSE {a \in MissingAssetsExpected(cat, folder_structure) : ~CheckAssetInS3(st, a)}

\* sum(len(c['missing_assets']) for c in all_missing_components)
RECURSIVE TotalMissingCount(_)
TotalMissingCount(missing_components) ==
    IF DOMAIN missing_components = {} THEN 0
    ELSE LET c == CHOOSE x \in DOMAIN missing_components : TRUE
         IN Cardinality(missing_components[c])
              + TotalMissingCount([x \in DOMAIN missing_components \ {c} |->
                                        missing_components[x]])

\* check_missing_assets_for_da, for a DA that exists
CheckMissingAssetsForDa(cmp, cat, st, da_id) ==
    LET listed == {c \in ComponentsForDa(cmp, da_id) :
                      /\ cmp[da_id][c].Required_Flag = "TRUE"
                      /\ CheckComponentAssets(cat, st, c) # {}}
        all_missing_components == [c \in listed |-> CheckComponentAssets(cat, st, c)]
    IN [ da_id |-> da_id,
         has_missing_assets |-> listed # {},
         missing_components |-> all_missing_components,
         total_missing_count |-> TotalMissingCount(all_missing_components) ]

\* ------------------------------------------------------- exception worker
\* process_exception_message: has_id = the message carries da_id;
\* store_ok = no table read of check_missing_assets_for_da raised;
\* email_ok = send_missing_assets_notification answered True
ExceptionOutcome(d, has_id, store_ok, email_ok) ==
    IF ~has_id THEN "bad_message"
    ELSE IF daTable[d] = NoRec \/ ~store_ok THEN "error"
    ELSE IF ~CheckMissingAssetsForDa(compTable, catalog, stored, d).has_missing_assets
         THEN "not_needed"
    ELSE IF email_ok THEN "sent"
    ELSE "send_failed"

\* a variant that keeps the schedule when the notification failed to send,
\* for contrast with ReachesDeleteExceptionSchedule
ReachesDeleteUnlessSendFailed(outcome) ==
    outcome \in {"not_needed", "sent"}

\* the outcomes after which process_exception_message reaches
\* delete_exception_schedule: every one but the early return and the raise
ReachesDeleteExceptionSchedule(outcome) ==
    outcome \in {"not_needed", "sent", "send_failed"}

ExceptionTick(d, has_id, store_ok, email_ok) ==
    LET outcome == ExceptionOutcome(d, has_id, store_ok, email_ok)
    IN /\ ExceptionSchedule(d) \in schedules
       /\ schedules' = IF ReachesDeleteExceptionSchedule(outcome)
                       THEN schedules \ {ExceptionSchedule(d)}
                       ELSE schedules
       /\ last' = [op |-> "exception", da |-> d, outcome |-> outcome, dlq |-> << >>,
                   report |-> IF outcome \in {"bad_message", "error"} THEN NoRec
                              ELSE CheckMissingAssetsForDa(compTable, catalog, stored, d)]
       /\ UNCHANGED << workers, untransmitted, jobs, submission, poll, assetInfo, titleInfo, package, now, daTable, compTable, tracker, catalog, stored,
                       licenseeTable, deliveryQueue, pendingNext, sentLog, apiCalls >>

\* ---------------------------------------------------------- delivery worker
\* the outcome of process_delivery_for_da; "error" is a raised exception,
\* which process_delivery_message logs
DeliveryOutcome(d, transport_ok, pick) ==
    LET da_info == daTable[d]
        assets == ManifestAssets(compTable, catalog, stored, d)
        statuses == ManifestStatuses(tracker, assets, pick)
    IN IF da_info = NoRec THEN "error"
       ELSE IF ~IsWithinDeliveryWindow(da_info, now) THEN "outside_delivery_window"
       ELSE IF ManifestRaises(daTable, licenseeTable, d) THEN "error"
       ELSE IF assets = {} THEN "no_assets"
       ELSE IF NewOrRevisedCount(statuses) = 0 THEN "no_changes"
       ELSE IF ~ShouldSendManifest(da_info, now) THEN "frequency_limit"
       ELSE IF SendManifestToLicensee(da_info.Licensee_ID, transport_ok)
            THEN "manifest_sent"
            ELSE "sqs_send_failed"

\* the outcomes reached after the tracking and status updates have run
Tracked == {"no_changes", "frequency_limit", "manifest_sent", "sqs_send_failed"}

\* process_delivery_for_da up to the return of send_manifest_to_licensee
ProcessDeliveryForDa(d, transport_ok, pick) ==
    LET outcome == DeliveryOutcome(d, transport_ok, pick)
        assets == ManifestAssets(compTable, catalog, stored, d)
        trk2 == TrackManifestAssets(tracker, d, assets, now)
        cmp2 == UpdateAllComponents(compTable, trk2, daTable, catalog, d,
                                    ComponentsForDa(compTable, d), now)
        das2 == UpdateDaDeliveryStatus(daTable, cmp2, d, now)
        statuses == ManifestStatuses(tracker, assets, pick)
    IN /\ pendingNext = "none"
       /\ Len(sentLog[d]) < MaxSends
       /\ pick \in ScanPicks(tracker)
       /\ tracker' = IF outcome \in Tracked THEN trk2 ELSE tracker
       /\ compTable' = IF outcome \in Tracked THEN cmp2 ELSE compTable
       /\ daTable' = IF outcome \in Tracked THEN das2 ELSE daTable
       /\ sentLog' = IF outcome = "manifest_sent"
                     THEN [sentLog EXCEPT ![d] = Append(@, [at |-> now, window |-> NoFreq])]
                     ELSE sentLog
       /\ pendingNext' = IF outcome = "manifest_sent" THEN d ELSE "none"
       /\ untransmitted' = [untransmitted EXCEPT ![d] =
                IF outcome \in {"frequency_limit", "sqs_send_failed"}
                THEN [files |-> {a \in assets : statuses[a] \in {"New", "Revised"}},
                      rows |-> trk2[d]]
                ELSE IF outcome = "manifest_sent" THEN NoRec ELSE @]
       /\ last' = Result("delivery", d, outcome)
       /\ UNCHANGED << workers, jobs, submission, poll, assetInfo, titleInfo, package, now, catalog, stored, licenseeTable, schedules >>

\* process_delivery_message: one message of the delivery queue
DeliveryTick(d, transport_ok, pick) ==
    /\ d \in deliveryQueue
    /\ deliveryQueue' = deliveryQueue \ {d}
    /\ ProcessDeliveryForDa(d, transport_ok, pick)
    /\ UNCHANGED apiCalls

\* process_delivery_message for a message during whose handling a
\* record-store or blob-store call of generate_manifest raises:
\* process_delivery_for_da re-raises, process_delivery_message logs the
\* exception and returns, and the poll loop deletes the message
DeliveryTickStoreError(d) ==
    /\ d \in deliveryQueue
    /\ pendingNext = "none"
    /\ daTable[d] # NoRec
    /\ IsWithinDeliveryWindow(daTable[d], now)
    /\ deliveryQueue' = deliveryQueue \ {d}
    /\ last' = Result("delivery", d, "store_error")
    /\ UNCHANGED << workers, untransmitted, jobs, submission, poll, assetInfo, titleInfo, package, now, daTable, compTable, tracker, catalog, stored,
                    licenseeTable, schedules, pendingNext, sentLog, apiCalls >>

\* _update_next_manifest_check after a successful send, then the return of
\* process_delivery_for_da
DeliveryUpdateNext ==
    /\ pendingNext # "none"
    /\ LET d == pendingNext
           licensee_item == licenseeTable[daTable[d].Licensee_ID]
       IN /\ daTable' = [daTable EXCEPT ![d].Next_Manifest_Check =
                            NextManifestCheck(licensee_item, now)]
          /\ sentLog' = [sentLog EXCEPT ![d][Len(sentLog[d])].window =
                            ManifestFrequency(licensee_item)]
          /\ last' = Result("update_next", d, "manifest_sent")
    /\ pendingNext' = "none"
    /\ UNCHANGED << workers, untransmitted, jobs, submission, poll, assetInfo, titleInfo, package, now, compTable, tracker, catalog, stored, licenseeTable,
                    schedules, deliveryQueue, apiCalls >>

\* ---------------------------------------------------- direct service calls
\* process_delivery_for_da(da_id)
ApiProcessDeliveryForDa(d, transport_ok, pick) ==
    /\ ProcessDeliveryForDa(d, transport_ok, pick)
    /\ UNCHANGED << deliveryQueue, apiCalls >>

Checksums == {1, 2}

\* the asset dictionaries a caller may pass to track_file_delivery
ApiAssets ==
    {[Asset_ID |-> a, Filename |-> AssetFilename[a], Folder_Path |-> AssetFolderPath[a],
      Title_ID |-> TITLE_ID, Version_ID |-> VERSION_ID, Version |-> v, Checksum |-> k] :
        a \in AssetIds, v \in Versions, k \in Checksums}
    \cup {[Asset_ID |-> "", Version |-> 1, Checksum |-> 1]}

\* the asset dictionary of a catalog item, with the key track_file_delivery reads
CatalogAssetDicts(cat) ==
    {[Asset_ID |-> a, Filename |-> AssetFilename[a], Folder_Path |-> AssetFolderPath[a],
      Title_ID |-> TITLE_ID, Version_ID |-> VERSION_ID,
      Version |-> AssetVersion[a], Checksum |-> AssetChecksum[a]] : a \in cat}

\* track_file_delivery(da_id, asset, _)
ApiTrackFileDelivery(d, asset) ==
    LET r == TrackFileDelivery(tracker, d, asset, now)
    IN /\ apiCalls < MaxApiCalls
       /\ tracker' = r.trk
       /\ apiCalls' = apiCalls + 1
       /\ last' = Result("track", d, IF r.raised THEN "raised" ELSE asset.Asset_ID)
       /\ UNCHANGED << workers, untransmitted, jobs, submission, poll, assetInfo, titleInfo, package, now, daTable, compTable, catalog, stored, licenseeTable,
                       schedules, deliveryQueue, pendingNext, sentLog >>

\* update_component_delivery_status(da_id, component_id, title_id, version_id)
ApiUpdateComponentDeliveryStatus(d, c) ==
    /\ daTable[d] # NoRec
    /\ apiCalls < MaxApiCalls
    /\ compTable' = UpdateComponentDeliveryStatus(compTable, tracker, daTable, catalog,
                                                  d, c, now)
    /\ apiCalls' = apiCalls + 1
    /\ last' = Result("update_component", d, c)
    /\ UNCHANGED << workers, untransmitted, jobs, submission, poll, assetInfo, titleInfo, package, now, daTable, tracker, catalog, stored, licenseeTable,
                    schedules, deliveryQueue, pendingNext, sentLog >>

\* update_da_delivery_status(da_id)
ApiUpdateDaDeliveryStatus(d) ==
    /\ daTable[d] # NoRec
    /\ apiCalls < MaxApiCalls
    /\ daTable' = UpdateDaDeliveryStatus(daTable, compTable, d, now)
    /\ apiCalls' = apiCalls + 1
    /\ last' = Result("update_da", d, "none")
    /\ UNCHANGED << workers, untransmitted, jobs, submission, poll, assetInfo, titleInfo, package, now, compTable, tracker, catalog, stored, licenseeTable,
                    schedules, deliveryQueue, pendingNext, sentLog >>

\* track_file_delivery called by the deliveries of the other DA
OtherDaTracks(asset) ==
    LET r == TrackFileDelivery(tracker, OtherDa, asset, now)
    IN /\ apiCalls < MaxApiCalls
       /\ ~r.raised
       /\ tracker' = r.trk
       /\ apiCalls' = apiCalls + 1
       /\ last' = Result("track", OtherDa, asset.Asset_ID)
       /\ UNCHANGED << workers, untransmitted, jobs, submission, poll, assetInfo, titleInfo, package, now, daTable, compTable, catalog, stored, licenseeTable,
                       schedules, deliveryQueue, pendingNext, sentLog >>

\* generate_manifest(da_id): the file_status of every asset it keeps, under
\* one outcome of the scans; nothing is written
GenerateManifest(d, pick) ==
    /\ ~ManifestRaises(daTable, licenseeTable, d)
    /\ pick \in ScanPicks(tracker)
    /\ last' = Result("generate_manifest", d,
                      ManifestStatuses(tracker,
                                       ManifestAssets(compTable, catalog, stored, d), pick))
    /\ UNCHANGED << workers, untransmitted, jobs, submission, poll, assetInfo, titleInfo, package, now, daTable, compTable, tracker, catalog, stored,
                    licenseeTable, schedules, deliveryQueue, pendingNext, sentLog, apiCalls >>

\* ------------------------------------- track_file_delivery, step by step
\* the update_item of track_file_delivery as the table applies it: the status
\* was computed from the row the caller read (existing), the SET clauses and
\* the if_not_exists increment act on the row the table holds (current)
TrackUpdateItem(current, existing, asset, current_time) ==
    LET new_version == Get(asset, "Version", 1)
        file_status_calc == FileStatusCalc(new_version, Get(existing, "Version", 1))
    IN [current EXCEPT
            !.File_Status = file_status_calc,
            !.Checksum = Get(asset, "Checksum", 0),
            !.Date_Last_Delivered = current_time,
            !.Version = new_version,
            !.Revision_Count = IF file_status_calc = "REVISED"
                               THEN current.Revision_Count + 1
                               ELSE current.Revision_Count]

\* one delivery message handled twice: both workers enter
\* track_file_delivery(da_id, asset, _) with the same arguments
DuplicateDelivery(d, asset) ==
    /\ \A w \in WorkerIds : workers[w] = Idle
    /\ TrackedAssetId(asset) # ""
    /\ workers' = [w \in WorkerIds |->
                    [pc |-> "track_called", da |-> d, asset |-> asset,
                     before |-> tracker[d][TrackedAssetId(asset)], calls |-> apiCalls]]
    /\ last' = Result("duplicate_delivery", d, TrackedAssetId(asset))
    /\ UNCHANGED << untransmitted, jobs, submission, poll, assetInfo, titleInfo, package, now, daTable, compTable, tracker, catalog, stored,
                    licenseeTable, schedules, deliveryQueue, pendingNext, sentLog, apiCalls >>

\* get_current_zulu and _get_file_tracker of one worker
TrackRead(w) ==
    /\ workers[w].pc = "track_called"
    /\ workers' = [workers EXCEPT ![w] =
                    [pc |-> "track_read", da |-> @.da, asset |-> @.asset,
                     before |-> @.before, calls |-> @.calls,
                     current_time |-> now,
                     existing |-> GetFileTracker(tracker, @.da, TrackedAssetId(@.asset))]]
    /\ last' = Result("track_read", workers[w].da, w)
    /\ UNCHANGED << untransmitted, jobs, submission, poll, assetInfo, titleInfo, package, now, daTable, compTable, tracker, catalog, stored,
                    licenseeTable, schedules, deliveryQueue, pendingNext, sentLog, apiCalls >>

\* the update_item or put_item of one worker, and its return
TrackWrite(w) ==
    /\ workers[w].pc = "track_read"
    /\ LET me == workers[w]
           asset_id == TrackedAssetId(me.asset)
           current == tracker[me.da][asset_id]
       IN /\ tracker' = [tracker EXCEPT ![me.da][asset_id] =
                            IF me.existing = NoRec
                            THEN TrackNewRow(me.asset, me.current_time)
                            ELSE TrackUpdateItem(current, me.existing, me.asset,
                                                 me.current_time)]
          /\ workers' = [workers EXCEPT ![w] =
                            [pc |-> "track_done", da |-> me.da, asset |-> me.asset,
                             before |-> me.before, calls |-> me.calls]]
          /\ last' = Result("track_write", me.da, w)
    /\ UNCHANGED << untransmitted, jobs, submission, poll, assetInfo, titleInfo, package, now, daTable, compTable, catalog, stored,
                    licenseeTable, schedules, deliveryQueue, pendingNext, sentLog, apiCalls >>

\* ------------------------------------------- _infer_component_id, called
\* the Folder_Path values tried: with or without a leading separator, a
\* title/version prefix, the filename and a closing slash
LeadingParts == { << >>, <<"/">>, <<"\\">> }
TitleParts == { << >>, TITLE_ID \o <<".">> \o VERSION_ID \o <<"/">>,
                TITLE_ID \o <<"_">> \o VERSION_ID \o <<"/">> }
FolderParts ==
    { << >>, <<"a">>, <<"b">>, <<"a", "x">>, <<"a", "/", "b">>, <<"a", "\\", "b">>,
      <<"a", "/", "b", "x">>, <<"a", "/", "b", "/", "c">> }
TrailingParts == { << >>, <<"/">>, <<"/", "f">>, <<"/", "g">> }
InferFilenames == { <<"f">>, <<"g">> }

InferAssets ==
    {[Folder_Path |-> lead \o title \o folder \o trail, Filename |-> filename,
      Title_ID |-> TITLE_ID, Version_ID |-> VERSION_ID] :
        lead \in LeadingParts, title \in TitleParts, folder \in FolderParts,
        trail \in TrailingParts, filename \in InferFilenames}

\* _infer_component_id(asset)
InferComponent(asset) ==
    /\ last' = [op |-> "infer", da |-> asset, outcome |-> InferComponentId(asset), dlq |-> << >>]
    /\ UNCHANGED << workers, untransmitted, jobs, submission, poll, assetInfo, titleInfo, package, now, daTable, compTable, tracker, catalog, stored,
                    licenseeTable, schedules, deliveryQueue, pendingNext, sentLog, apiCalls >>

\* ------------------------------------------------- SQSProcessorService
\* everything but the poll loop, its queue and the step record
notPoll == << workers, untransmitted, jobs, submission, assetInfo, titleInfo, package, now, daTable, compTable, tracker, catalog, stored, licenseeTable,
              schedules, deliveryQueue, pendingNext, sentLog, apiCalls >>

\* a producer sends a message to the polled queue
PollSend(m) ==
    /\ poll.queue[m] = "absent"
    /\ poll' = [poll EXCEPT !.queue[m] = "visible"]
    /\ last' = Result("send", m, "sent")
    /\ UNCHANGED notPoll

\* receive_message returns one visible message, which becomes invisible
\* for the VisibilityTimeout
PollReceive(m) ==
    /\ poll.running
    /\ poll.cur = "none"
    /\ poll.queue[m] = "visible"
    /\ poll.receives[m] < MaxReceives
    /\ poll' = [poll EXCEPT !.queue[m] = "inflight",
                            !.cur = m,
                            !.receives[m] = @ + 1]
    /\ last' = Result("receive", m, "received")
    /\ UNCHANGED notPoll

\* receive_message raises: logged, sleep, next iteration
PollReceiveFails ==
    /\ poll.running
    /\ poll.cur = "none"
    /\ last' = Result("receive", "none", "raised")
    /\ UNCHANGED << poll, notPoll >>

\* variant: the message is deleted whether or not the handler raised
PollOutcomeAlwaysDeletes(body_ok, handler_ok, delete_ok) ==
    IF ~body_ok THEN "bad_body"
    ELSE IF ~delete_ok THEN "delete_failed"
    ELSE "deleted"

\* the body of "for message in messages": json.loads, processor_func,
\* delete_message, in this order inside one try
PollOutcome(body_ok, handler_ok, delete_ok) ==
    IF ~body_ok THEN "bad_body"
    ELSE IF ~handler_ok THEN "handler_raised"
    ELSE IF ~delete_ok THEN "delete_failed"
    ELSE "deleted"

\* one received message goes through the loop body: body_ok = the body
\* parses, handler_ok = processor_func returns without raising, delete_ok =
\* delete_message succeeds
PollHandle(body_ok, handler_ok, delete_ok) ==
    LET m == poll.cur
        outcome == PollOutcome(body_ok, handler_ok, delete_ok)
    IN /\ m # "none"
       /\ poll' = [poll EXCEPT !.cur = "none",
                               !.queue[m] = IF outcome = "deleted" THEN "deleted" ELSE @]
       /\ last' = Result("poll", m, outcome)
       /\ UNCHANGED notPoll

\* the VisibilityTimeout of a received message that was not deleted expires
PollVisibilityTimeout(m) ==
    /\ poll.queue[m] = "inflight"
    /\ poll' = [poll EXCEPT !.queue[m] = "visible"]
    /\ last' = Result("timeout", m, "visible")
    /\ UNCHANGED notPoll

\* stop_polling
PollStop ==
    /\ poll.running
    /\ poll' = [poll EXCEPT !.running = FALSE]
    /\ last' = Result("stop", "none", "none")
    /\ UNCHANGED notPoll

\* ------------------------------------------------------------ asset ingest
\* everything but the ingest-side tables and the step record
notIngest == << workers, untransmitted, jobs, submission, poll, package, daTable, compTable, tracker, catalog, stored,
                licenseeTable, schedules, deliveryQueue, pendingNext, sentLog,
                apiCalls >>

\* normalize_s3_path: forward slashes, no leading slash, the trailing slash
\* kept when the path had one
NormalizeS3Path(path) ==
    IF path = << >> THEN << >>
    ELSE LET has_trailing_slash == path[Len(path)] \in {"\\", "/"}
             stripped == StripSlash(ReplaceBackslashes(path))
         IN IF has_trailing_slash /\ stripped # << >>
            THEN stripped \o << "/" >>
            ELSE stripped

\* get_next_version returns None
NoVersion == 0

\* the 'Folder Path' cells, the filenames of the manifest rows
FolderPathCells == { << "T", "/", "a" >>, << "T", "\\", "a" >> }
Filenames == {"f", "g"}

\* get_next_version: the items of the folder, an exact duplicate among them,
\* else the checksum of the item with the greatest Version
GetNextVersion(tbl, folder_path, new_checksum, filename) ==
    LET normalized == NormalizeS3Path(folder_path)
        items == {i \in tbl : i.Folder_Path = normalized}
        latest == CHOOSE i \in items : \A o \in items : o.Version <= i.Version
    IN IF items = {} THEN 1
       ELSE IF \E item \in items :
                  /\ NormalizeS3Path(item.Folder_Path) = normalized
                  /\ item.Filename = filename
                  /\ item.Checksum = new_checksum
            THEN NoVersion
            ELSE IF latest.Checksum = new_checksum THEN NoVersion
                 ELSE latest.Version + 1

\* one manifest row of _process_asset_info: row[3] = folder_cell,
\* row[1] = filename, row[2] = checksum
ProcessAssetRow(folder_cell, filename, checksum) ==
    LET folder_path == NormalizeS3Path(folder_cell)
        version == GetNextVersion(assetInfo, folder_path, checksum, filename)
    IN /\ version <= MaxAssetVersion
       /\ assetInfo' =
            IF version = NoVersion THEN assetInfo
            ELSE assetInfo \cup {[ Folder_Path |-> folder_path,
                                   Filename |-> filename,
                                   Checksum |-> checksum,
                                   Version |-> version ]}
       /\ last' = Result("asset_row", filename, version)
       /\ UNCHANGED << now, titleInfo, notIngest >>

\* the title data of a submission or of a manifest
TitleNames == {"n1", "n2"}
TitleData ==
    [Title_ID : TitleIds \cup {""}, Version_ID : VersionIds, Title_Name : TitleNames]

\* variant: the item of an existing key is overwritten
TitleUpsertOverwrites(tbl, title_data, created_at) ==
    [tbl EXCEPT ![<< title_data.Title_ID, title_data.Version_ID >>] =
        [Title_Name |-> title_data.Title_Name, Created_At |-> created_at]]

\* the write both first-time upserts make: the item is put only when the
\* key (Title_ID, Version_ID) has none
TitleUpsert(tbl, title_data, created_at) ==
    LET key == << title_data.Title_ID, title_data.Version_ID >>
    IN IF tbl[key] # NoRec THEN tbl
       ELSE [tbl EXCEPT ![key] =
                [Title_Name |-> title_data.Title_Name, Created_At |-> created_at]]

\* DynamoDBService.create_if_not_exists_title_info
CreateIfNotExistsTitleInfo(title_data) ==
    LET key == << title_data.Title_ID, title_data.Version_ID >>
    IN /\ titleInfo' = IF title_data.Title_ID = "" THEN titleInfo
                       ELSE TitleUpsert(titleInfo, title_data, now)
       /\ last' = Result("create_title", title_data,
                         IF title_data.Title_ID = "" THEN "raised"
                         ELSE IF titleInfo[key] = NoRec THEN "is_new"
                         ELSE "already_exists")
       /\ UNCHANGED << now, assetInfo, notIngest >>

\* AssetIngestDynamoDBService.put_title_info: the conditional put; the item
\* of the manifest carries no Created_At
PutTitleInfo(item) ==
    LET key == << item.Title_ID, item.Version_ID >>
    IN /\ item.Title_ID # ""
       /\ titleInfo' = TitleUpsert(titleInfo, item, NoDate)
       /\ last' = Result("put_title", item,
                         IF titleInfo[key] = NoRec THEN "inserted"
                         ELSE "already_exists")
       /\ UNCHANGED << now, assetInfo, notIngest >>

\* create_if_not_exists_title_info, step by step: the get_item of one caller
TitleGet(w, title_data) ==
    /\ workers[w] = Idle
    /\ title_data.Title_ID # ""
    /\ workers' = [workers EXCEPT ![w] =
                    [pc |-> "title_read", title_data |-> title_data,
                     is_new |-> titleInfo[<< title_data.Title_ID, title_data.Version_ID >>] = NoRec]]
    /\ last' = Result("title_get", title_data, w)
    /\ UNCHANGED << untransmitted, jobs, submission, poll, assetInfo, titleInfo, package, now, daTable, compTable, tracker, catalog, stored,
                    licenseeTable, schedules, deliveryQueue, pendingNext, sentLog, apiCalls >>

\* the put_item of create_if_not_exists_title_info: it carries no condition
TitlePutItem(tbl, title_data, created_at) ==
    [tbl EXCEPT ![<< title_data.Title_ID, title_data.Version_ID >>] =
        [Title_Name |-> title_data.Title_Name, Created_At |-> created_at]]

\* the rest of create_if_not_exists_title_info for one caller: put_item when
\* its get_item found no item, then the return
TitlePut(w) ==
    /\ workers[w].pc = "title_read"
    /\ titleInfo' = IF workers[w].is_new
                    THEN TitlePutItem(titleInfo, workers[w].title_data, now)
                    ELSE titleInfo
    /\ workers' = [workers EXCEPT ![w] = Idle]
    /\ last' = Result("title_put", workers[w].title_data,
                      IF workers[w].is_new THEN "is_new" ELSE "already_exists")
    /\ UNCHANGED << untransmitted, jobs, submission, poll, assetInfo, package, now, daTable, compTable, tracker, catalog, stored,
                    licenseeTable, schedules, deliveryQueue, pendingNext, sentLog, apiCalls >>

\* -------------------------------------------------------- asset validation
\* everything but the package, the ingest-side tables and the step record
notValidate == << workers, untransmitted, jobs, submission, poll, daTable, compTable, tracker, catalog, stored,
                  licenseeTable, schedules, deliveryQueue, pendingNext, sentLog,
                  apiCalls >>

\* ASSET_VALIDATION_CUTOFF_MINUTES, configured to one unit of the clock
ValidationCutoff == 1

\* the keys under Upload/T of the package "T"
UploadKey(folder, filename) == << "Upload/" >> \o folder \o << "/", filename >>
AssetKeys ==
    { UploadKey(<< "T", "/", "a" >>, "f"), UploadKey(<< "T", "/", "a" >>, "g"),
      UploadKey(<< "T", "/", "b" >>, "h") }
CsvKey == << "Upload/", "T", "/", "m", ".csv" >>

\* key.lower().endswith('.csv')
IsCsvKey(key) == key[Len(key)] = ".csv"

\* key.replace("Upload/", "", 1)
WithoutStage(key) == IF key # << >> /\ Head(key) = "Upload/" THEN Tail(key) ELSE key

\* key.replace("Upload/", "Error/", 1)
ErrorKey(key) ==
    IF key # << >> /\ Head(key) = "Upload/" THEN << "Error/" >> \o Tail(key) ELSE key

\* key.rsplit("/", 1)[0]
BeforeLastSlash(key) ==
    LET slashes == {i \in 1..Len(key) : key[i] = "/"}
    IN IF slashes = {} THEN key
       ELSE SubSeq(key, 1, (CHOOSE i \in slashes : \A j \in slashes : j <= i) - 1)

\* _extract_folder_path
ExtractFolderPath(asset_key) == NormalizeS3Path(BeforeLastSlash(WithoutStage(asset_key)))

\* the data rows of a manifest: the 'Folder Path' cell as the studio wrote
\* it, with forward or backward separators, with or without a closing one
ManifestFolderCells ==
    { << "T", "/", "a" >>, << "T", "/", "a", "/" >>, << "T", "\\", "b" >> }
ManifestRows ==
    { [Folder_Path |-> c, Filename |-> "f", Checksum |-> 1] : c \in ManifestFolderCells }
RowSeqs == UNION { [1..n -> ManifestRows] : n \in 0..MaxRows }

\* AssetSidecarProcessor._handle_extra_files
HandleExtraFiles(data_rows, asset_files, csv_key) ==
    LET csv_paths == {NormalizeS3Path(data_rows[i].Folder_Path) : i \in DOMAIN data_rows}
        extra_files == {k \in asset_files : ExtractFolderPath(k) \notin csv_paths}
    IN IF extra_files = {}
       THEN [files |-> asset_files \cup {csv_key}, status |-> "PENDING_CHECKSUM"]
       ELSE [files |-> extra_files \cup {csv_key}, status |-> "EXTRA_FILES"]

\* AssetSidecarProcessor.compare_files_with_csv
CompareFilesWithCsv(data_rows, asset_files, csv_key) ==
    LET folder_file_count == Cardinality(asset_files)
        csv_row_count == Len(data_rows)
    IN IF csv_row_count = 0
       THEN [files |-> asset_files \cup {csv_key}, status |-> "INVALID_CSV"]
       ELSE IF folder_file_count < csv_row_count /\ folder_file_count # 0
       THEN [files |-> asset_files \cup {csv_key}, status |-> "MISSING_FILES"]
       ELSE IF folder_file_count > csv_row_count
       THEN HandleExtraFiles(data_rows, asset_files, csv_key)
       ELSE [files |-> asset_files \cup {csv_key}, status |-> "PENDING_CHECKSUM"]

\* AssetSidecarProcessor.validate_checksums: the digest comparison is
\* commented out, so no mismatch is ever found
ValidateChecksums(asset_files, csv_key) ==
    [files |-> asset_files \cup {csv_key},
     status |-> IF asset_files = {} THEN "VALID_STRUCTURE" ELSE "SUCCESS"]

\* _process_asset_info over the data rows, in order
RECURSIVE ProcessAssetInfo(_, _)
ProcessAssetInfo(tbl, data_rows) ==
    IF data_rows = << >> THEN tbl
    ELSE LET row == Head(data_rows)
             folder_path == NormalizeS3Path(row.Folder_Path)
             version == GetNextVersion(tbl, folder_path, row.Checksum, row.Filename)
         IN ProcessAssetInfo(
                IF version = NoVersion THEN tbl
                ELSE tbl \cup {[ Folder_Path |-> folder_path,
                                 Filename |-> row.Filename,
                                 Checksum |-> row.Checksum,
                                 Version |-> version ]},
                Tail(data_rows))

\* the title section of the manifest
ManifestTitle == [Title_ID |-> "T1", Version_ID |-> "V1", Title_Name |-> "n1"]

\* a package of the ingest table reaches VALID_STRUCTURE with its files
\* under Upload/; digest is the MD5 of each uploaded file's content
PackageArrives(asset_files, has_csv, csv_valid, data_rows, digest) ==
    /\ package = NoPackage
    /\ \A k \in AssetKeys \ asset_files : digest[k] = 1
    /\ package' = [ status |-> "VALID_STRUCTURE",
                    CreatedDate |-> now,
                    upload |-> asset_files \cup (IF has_csv THEN {CsvKey} ELSE {}),
                    digest |-> digest,
                    csv_valid |-> csv_valid,
                    data_rows |-> data_rows,
                    error |-> {},
                    repo |-> {} ]
    /\ last' = Result("package", "T", "VALID_STRUCTURE")
    /\ UNCHANGED << now, assetInfo, titleInfo, notValidate >>

\* the step record of a validation tick: the classification and the files
\* it returned
Classified(status, files) ==
    [op |-> "validation", da |-> "T", outcome |-> status, dlq |-> << >>,
     files |-> files]

\* the loop "copy_object(ingest_bucket, key, ingest_bucket, dest_key)" into
\* Error/: copy_object answers False for the keys of copy_failed, and the
\* answer is not read
CopyToError(error, files, copy_failed) ==
    error \cup {ErrorKey(k) : k \in files \ copy_failed}

\* verify_and_delete_error_folder: the objects under Upload/<folder>/ are
\* deleted when each of them has its copy under Error/
VerifyAndDeleteErrorFolder(upload, error) ==
    IF \A key \in upload : ErrorKey(key) \in error THEN {} ELSE upload

\* verify_and_delete_folder: the objects under Upload/<folder>/ are deleted
\* when each of them is found in the asset repository
VerifyAndDeleteFolder(upload, repo) ==
    IF \A key \in upload : WithoutStage(key) \in repo THEN {} ELSE upload

\* process_validation_message for the package: the cutoff, then
\* _process_single_package
ValidationTick(copy_failed) ==
    /\ package # NoPackage
    /\ package.status = "VALID_STRUCTURE"
    /\ copy_failed \subseteq package.upload
    /\ Cardinality(copy_failed) <= MaxCopyFailures
    /\ LET file_keys == package.upload
           has_csv == \E key \in file_keys : IsCsvKey(key)
           csv_key == CHOOSE key \in file_keys : IsCsvKey(key)
           asset_files == {k \in file_keys : ~IsCsvKey(k)}
           compared == CompareFilesWithCsv(package.data_rows, asset_files, csv_key)
           checked == ValidateChecksums(asset_files, csv_key)
           final == IF compared.status = "PENDING_CHECKSUM" THEN checked ELSE compared
       IN IF package.CreatedDate + ValidationCutoff > now
          THEN /\ copy_failed = {}
               /\ last' = Classified("skipped", {})
               /\ UNCHANGED << package, assetInfo, titleInfo >>
          ELSE IF ~has_csv
          THEN \* _handle_missing_csv
               /\ package' = [package EXCEPT
                                !.error = CopyToError(@, file_keys, copy_failed),
                                !.status = "FAILED"]
               /\ last' = Classified("FAILED", file_keys)
               /\ UNCHANGED << assetInfo, titleInfo >>
          ELSE IF ~package.csv_valid
          THEN \* _move_to_error
               /\ package' = [package EXCEPT
                                !.error = CopyToError(@, file_keys, copy_failed),
                                !.status = "INVALID_CSV"]
               /\ last' = Classified("INVALID_CSV", file_keys)
               /\ UNCHANGED << assetInfo, titleInfo >>
          ELSE \* process_csv, then the comparison and its handling
               /\ titleInfo' = TitleUpsert(titleInfo, ManifestTitle, NoDate)
               /\ assetInfo' = ProcessAssetInfo(assetInfo, package.data_rows)
               /\ last' = Classified(final.status, final.files)
               /\ package' =
                    IF final.status = "EXTRA_FILES"
                    THEN \* the worker's _handle_extra_files: each file
                         \* copied to Error/ and deleted; no item of the
                         \* ingest table has a file's key as its AssetPath
                         [package EXCEPT
                            !.error = CopyToError(@, final.files, copy_failed),
                            !.upload = @ \ final.files]
                    ELSE IF final.status = "SUCCESS"
                    THEN \* _finalize_processing: promoted, then
                         \* verify_and_delete_folder
                         LET repo == package.repo \cup
                                 {WithoutStage(k) : k \in final.files \ copy_failed}
                         IN [package EXCEPT
                                !.repo = repo,
                                !.upload = VerifyAndDeleteFolder(@, repo),
                                !.status = "SUCCESS"]
                    ELSE IF final.status \in {"INVALID_CSV", "MISMATCH_CHECKSUM"}
                    THEN \* _finalize_processing: _move_to_error, then
                         \* verify_and_delete_error_folder
                         LET error == CopyToError(package.error, final.files, copy_failed)
                         IN [package EXCEPT
                                !.error = error,
                                !.upload = VerifyAndDeleteErrorFolder(@, error),
                                !.status = final.status]
                    ELSE IF final.status = "MISSING_FILES"
                    THEN [package EXCEPT
                            !.error = CopyToError(@, final.files, copy_failed),
                            !.status = "MISSING_FILES"]
                    ELSE [package EXCEPT !.status = final.status]
    /\ UNCHANGED << now, notValidate >>

\* ------------------------------------------------------------ date strings
\* one day and one hour in units of the clock (900 s)
DAY == 96
HOUR == 4

\* a date field of a submission: '' or missing, a string dateutil cannot
\* parse, or a date-time with its local reading and, when it carries one,
\* its UTC offset
Absent == [kind |-> "absent"]
Garbage == [kind |-> "garbage"]
None == [kind |-> "none"]
IsoDate(local, offset, aware) ==
    [kind |-> "date", local |-> local, offset |-> offset, aware |-> aware]

\* the truth value Python gives to result.get(field)
Truthy(v) == v.kind \in {"garbage", "date"}

\* parse_date: the instant of a date string, a naive one read as UTC
ParseDate(v) ==
    IF v.kind # "date" THEN NoDate
    ELSE IF v.aware THEN v.local - v.offset
    ELSE v.local

\* a variant that keeps the local reading and drops the offset, for contrast
\* with ToZulu
ToZuluDropsOffset(v) ==
    IF v.kind # "date" THEN None ELSE IsoDate(v.local, 0, TRUE)

\* to_zulu: None for an empty or unparseable string, else the same instant
\* written in UTC with the Z suffix
ToZulu(v) ==
    IF v.kind # "date" THEN None ELSE IsoDate(ParseDate(v), 0, TRUE)

\* subtract_days
SubtractDays(v, days) ==
    IF v.kind = "date" /\ days > 0
    THEN ToZulu(IsoDate(ParseDate(v) - days * DAY, 0, TRUE))
    ELSE None

\* ---------------------------------------------------------- default values
MaxWindow == 2
Windows == 0..MaxWindow

DateFields == {"License_Period_Start", "License_Period_End", "Due_Date",
               "Earliest_Delivery_Date", "Exception_Notification_Date"}

\* the same instant written without an offset and with +01:00, and a later one
SuppliedDates ==
    { IsoDate(10 * DAY, 0, FALSE), IsoDate(10 * DAY + HOUR, HOUR, TRUE),
      IsoDate(12 * DAY, 0, TRUE) }

\* the values each date field of a submission takes here
FieldChoices(f) ==
    IF f \in {"License_Period_Start", "Due_Date"}
    THEN {Absent, Garbage} \cup SuppliedDates
    ELSE IF f = "License_Period_End"
    THEN {Absent, Garbage, IsoDate(30 * DAY, 0, FALSE)}
    ELSE {Absent, Garbage, IsoDate(9 * DAY, 0, FALSE), IsoDate(9 * DAY + HOUR, HOUR, TRUE)}

\* the date fields of a normalized submission, each drawn by choices(field)
DataOver(choices(_)) ==
    { [License_Period_Start |-> s, License_Period_End |-> e, Due_Date |-> d,
       Earliest_Delivery_Date |-> ed, Exception_Notification_Date |-> en] :
         s \in choices("License_Period_Start"), e \in choices("License_Period_End"),
         d \in choices("Due_Date"), ed \in choices("Earliest_Delivery_Date"),
         en \in choices("Exception_Notification_Date") }

DaData == DataOver(FieldChoices)

\* the studio configuration as apply_defaults reads it
StudioConfigs ==
    [Due_Date_Window : Windows, Earliest_Delivery : Windows, Exception_Notification : Windows]

\* the state of _apply_system_defaults between two of its steps
Running(da_data) == [raised |-> FALSE, error |-> "", data |-> da_data]

\* a variant that drops a field to_zulu cannot convert and goes on, for
\* contrast with ConvertField
ConvertFieldDropsUnparseable(st, f) ==
    IF st.raised \/ ~Truthy(st.data[f]) THEN st
    ELSE IF ToZulu(st.data[f]) = None
         THEN [st EXCEPT !.data[f] = Absent]
         ELSE [st EXCEPT !.data[f] = ToZulu(st.data[f])]

\* a present field is replaced by its to_zulu; ValueError when that is None
ConvertField(st, f) ==
    IF st.raised \/ ~Truthy(st.data[f]) THEN st
    ELSE IF ToZulu(st.data[f]) = None
         THEN [st EXCEPT !.raised = TRUE, !.error = f]
         ELSE [st EXCEPT !.data[f] = ToZulu(st.data[f])]

\* the Due_Date step
DefaultDueDate(st, due_date_window) ==
    IF st.raised THEN st
    ELSE IF ~Truthy(st.data["Due_Date"])
    THEN IF Truthy(st.data["License_Period_Start"]) /\ due_date_window > 0
         THEN LET calculated_due_date ==
                      SubtractDays(st.data["License_Period_Start"], due_date_window)
              IN IF Truthy(calculated_due_date)
                 THEN [st EXCEPT !.data["Due_Date"] = calculated_due_date]
                 ELSE st
         ELSE st
    ELSE ConvertField(st, "Due_Date")

\* the Earliest_Delivery_Date step
DefaultEarliestDelivery(st, earliest_delivery) ==
    IF st.raised THEN st
    ELSE IF ~Truthy(st.data["Earliest_Delivery_Date"]) /\ Truthy(st.data["Due_Date"])
    THEN IF earliest_delivery > 0
         THEN LET calculated_earliest == SubtractDays(st.data["Due_Date"], earliest_delivery)
              IN IF Truthy(calculated_earliest)
                 THEN [st EXCEPT !.data["Earliest_Delivery_Date"] = calculated_earliest]
                 ELSE st
         ELSE [st EXCEPT !.data["Earliest_Delivery_Date"] = st.data["Due_Date"]]
    ELSE ConvertField(st, "Earliest_Delivery_Date")

\* the Exception_Notification_Date step
DefaultExceptionNotification(st, exception_notification) ==
    IF st.raised THEN st
    ELSE IF /\ ~Truthy(st.data["Exception_Notification_Date"])
            /\ Truthy(st.data["Due_Date"])
            /\ exception_notification > 0
    THEN LET calculated_exception ==
                 SubtractDays(st.data["Due_Date"], exception_notification)
         IN IF Truthy(calculated_exception)
            THEN [st EXCEPT !.data["Exception_Notification_Date"] = calculated_exception]
            ELSE st
    ELSE ConvertField(st, "Exception_Notification_Date")

\* _apply_system_defaults over the date fields; the defaults of
\* Exception_Recipients and DA_Description read and write no date field
ApplySystemDefaults(da_data, due_date_window, earliest_delivery, exception_notification) ==
    LET s1 == ConvertField(Running(da_data), "License_Period_Start")
        s2 == ConvertField(s1, "License_Period_End")
        s3 == DefaultDueDate(s2, due_date_window)
        s4 == DefaultEarliestDelivery(s3, earliest_delivery)
    IN DefaultExceptionNotification(s4, exception_notification)

\* apply_defaults with the studio configuration it fetched
ApplyDefaultsResult(da_data, config) ==
    ApplySystemDefaults(da_data, config.Due_Date_Window, config.Earliest_Delivery,
                        config.Exception_Notification)

\* everything but the submission in hand and the step record
notSubmission == << workers, untransmitted, jobs, now, daTable, compTable, tracker, catalog, stored, licenseeTable,
                    schedules, deliveryQueue, pendingNext, sentLog, apiCalls, poll,
                    assetInfo, titleInfo, package >>

\* a caller hands a normalized submission to apply_defaults
DefaultsRequested ==
    /\ submission = NoRec
    /\ \E da_data \in DaData, config \in StudioConfigs :
          submission' = [state |-> "received", format |-> "defaults", da_data |-> da_data,
                         config |-> config, components |-> {}, required |-> {}]
    /\ last' = Result("defaults_requested", "none", "none")
    /\ UNCHANGED notSubmission

\* DefaultValuesService.apply_defaults called on a normalized submission
ApplyDefaults ==
    /\ submission # NoRec
    /\ submission.state = "received"
    /\ submission.format = "defaults"
    /\ LET r == ApplyDefaultsResult(submission.da_data, submission.config)
       IN last' = [op |-> "apply_defaults", da |-> "none", dlq |-> << >>,
                   outcome |-> IF r.raised THEN "raised" ELSE "returned",
                   error |-> r.error,
                   result |-> IF r.raised THEN NoRec ELSE r.data]
    /\ submission' = [submission EXCEPT !.state = "processed"]
    /\ UNCHANGED notSubmission

\* ----------------------------------------------------------- DA processors
\* the title and licensee every submission here names
SubmissionTitle == [Title_ID |-> "T1", Version_ID |-> "V1", Title_Name |-> "n1"]
SubmissionLicensee == "PrimeVideo"

\* the values each date field takes in a CSV or JSON submission
SubmittedChoices(f) ==
    IF f = "License_Period_End" THEN {Garbage, IsoDate(30 * DAY, 0, FALSE)}
    ELSE {Absent, Garbage, IsoDate(10 * DAY + HOUR, HOUR, TRUE)}

SubmittedData == DataOver(SubmittedChoices)

\* studio configurations with the three windows equal
EqualWindows ==
    {config \in StudioConfigs :
        /\ config.Due_Date_Window = config.Earliest_Delivery
        /\ config.Earliest_Delivery = config.Exception_Notification}

\* a CSV upload or a JSON payload reaches its processor; the components are
\* well formed, required = those whose 'Required Flag' is TRUE
DaSubmitted ==
    /\ submission = NoRec
    /\ \E format \in {"csv", "json"}, da_data \in SubmittedData, config \in EqualWindows,
          comps \in SUBSET CompIds :
          \E required \in {comps, {}} :
            submission' = [state |-> "received", format |-> format, da_data |-> da_data,
                           config |-> config, components |-> comps, required |-> required]
    /\ last' = Result("da_submitted", "none", "none")
    /\ UNCHANGED notSubmission

\* validate_main_body, validate_components, apply_defaults and
\* validate_final_data: the error process raises before it writes anything
ValidationError(sub) ==
    IF ~Truthy(sub.da_data["License_Period_Start"]) \/ ~Truthy(sub.da_data["License_Period_End"])
    THEN "missing_required_fields"
    ELSE IF sub.components = {} THEN "no_components"
    ELSE IF ApplyDefaultsResult(sub.da_data, sub.config).raised THEN "invalid_date"
    ELSE "none"

\* the step record of a processor: the calls it made in order, those of them
\* whose exception it logged and went on, and the times of the schedules
\* it created
ProcessResult(format, d, outcome, error, calls, failed, manifest_start, exception_at) ==
    [op |-> "process", format |-> format, da |-> d, outcome |-> outcome, dlq |-> << >>,
     error |-> error, calls |-> calls, failed |-> failed,
     manifest_start |-> manifest_start, exception_at |-> exception_at]

\* one create_component call per component
ComponentCalls(comps) == [i \in 1..Cardinality(comps) |-> "create_component"]

\* CSVProcessor.process; d is the uuid create_da_record draws; a schedule
\* call that fails is logged and the submission is still accepted
CsvProcess(d, manifest_ok, exception_ok) ==
    /\ submission # NoRec
    /\ submission.state = "received"
    /\ submission.format = "csv"
    /\ daTable[d] = NoRec
    /\ submission' = [submission EXCEPT !.state = "processed"]
    /\ LET error == ValidationError(submission)
           normalized_main == ApplyDefaultsResult(submission.da_data, submission.config).data
           earliest_delivery_date == normalized_main["Earliest_Delivery_Date"]
           exception_notification_date == normalized_main["Exception_Notification_Date"]
           manifest == Truthy(earliest_delivery_date)
           exception == Truthy(exception_notification_date)
       IN IF error # "none"
          THEN /\ last' = ProcessResult("csv", d, "raised", error, << >>, {}, NoDate, NoDate)
               /\ UNCHANGED << titleInfo, daTable, compTable, schedules >>
          ELSE /\ titleInfo' = TitleUpsert(titleInfo, SubmissionTitle, now)
               /\ daTable' = [daTable EXCEPT ![d] =
                                 NewDaRecord(SubmissionLicensee,
                                             ParseDate(ToZulu(earliest_delivery_date)),
                                             ParseDate(ToZulu(normalized_main["License_Period_End"])))]
               /\ compTable' = [compTable EXCEPT ![d] =
                                   [c \in CompIds |->
                                       IF c \notin submission.components THEN NoRec
                                       ELSE NewComponentRecord(
                                               IF c \in submission.required THEN "TRUE" ELSE "FALSE")]]
               /\ schedules' = schedules
                               \cup (IF manifest /\ manifest_ok THEN {ManifestSchedule(d)} ELSE {})
                               \cup (IF exception /\ exception_ok THEN {ExceptionSchedule(d)} ELSE {})
               /\ last' = ProcessResult("csv", d, "created", "none",
                             << "create_if_not_exists_title_info", "create_da_record" >>
                                \o ComponentCalls(submission.components)
                                \o (IF manifest THEN << "create_manifest_schedule" >> ELSE << >>)
                                \o (IF exception
                                    THEN << "create_exception_notification_schedule" >> ELSE << >>),
                             (IF manifest /\ ~manifest_ok
                              THEN {"create_manifest_schedule"} ELSE {})
                             \cup (IF exception /\ ~exception_ok
                                   THEN {"create_exception_notification_schedule"} ELSE {}),
                             IF manifest /\ manifest_ok
                             THEN ParseDate(earliest_delivery_date) ELSE NoDate,
                             IF exception /\ exception_ok
                             THEN ParseDate(exception_notification_date) ELSE NoDate)
    /\ UNCHANGED << workers, untransmitted, jobs, now, tracker, catalog, stored, licenseeTable, deliveryQueue,
                    pendingNext, sentLog, apiCalls, poll, assetInfo, package >>

\* JSONProcessor.process: after create_da_record the first create_component
\* call lacks an argument (TypeError), so process raises with the DA record
\* written, no component and no schedule
JsonProcess(d) ==
    /\ submission # NoRec
    /\ submission.state = "received"
    /\ submission.format = "json"
    /\ daTable[d] = NoRec
    /\ submission' = [submission EXCEPT !.state = "processed"]
    /\ LET error == ValidationError(submission)
           normalized_main == ApplyDefaultsResult(submission.da_data, submission.config).data
       IN IF error # "none"
          THEN /\ last' = ProcessResult("json", d, "raised", error, << >>, {}, NoDate, NoDate)
               /\ UNCHANGED << titleInfo, daTable >>
          ELSE /\ titleInfo' = TitleUpsert(titleInfo, SubmissionTitle, now)
               /\ daTable' = [daTable EXCEPT ![d] =
                                 NewDaRecord(SubmissionLicensee,
                                             ParseDate(ToZulu(normalized_main["Earliest_Delivery_Date"])),
                                             ParseDate(ToZulu(normalized_main["License_Period_End"])))]
               /\ last' = ProcessResult("json", d, "raised", "TypeError",
                             << "create_if_not_exists_title_info", "create_da_record",
                                "create_component" >>, {}, NoDate, NoDate)
    /\ UNCHANGED << workers, untransmitted, jobs, now, compTable, schedules, tracker, catalog, stored, licenseeTable,
                    deliveryQueue, pendingNext, sentLog, apiCalls, poll, assetInfo, package >>

\* ---------------------------------------------------------- watermark jobs
\* everything but the watermark-job table and the step record
notJobs == << workers, untransmitted, submission, now, daTable, compTable, tracker, catalog, stored, licenseeTable,
              schedules, deliveryQueue, pendingNext, sentLog, apiCalls, poll,
              assetInfo, titleInfo, package >>

SourceKeys == {"k1", "k2"}
ApiStatuses == {"queued", "processing"}

\* the item create_watermark_job builds; updates lists the update_item
\* calls applied to the item since
JobRecord(job_id, source_key) ==
    [job_id |-> job_id, source_key |-> source_key, status |-> "created", updates |-> << >>]

\* a variant that puts the item without a condition, for contrast with PutJob
PutJobUnconditional(tbl, job_data) ==
    [tbl EXCEPT ![job_data.job_id] = job_data]

\* put_item under attribute_not_exists(job_id): the table is left as it is
\* when the key has an item
PutJob(tbl, job_data) ==
    IF tbl[job_data.job_id] # NoRec THEN tbl
    ELSE [tbl EXCEPT ![job_data.job_id] = job_data]

\* update_job: update_item SET on the key, which writes the attributes into
\* the item and makes one of them alone when the key has none
UpdateJob(tbl, job_id, status, kind) ==
    [tbl EXCEPT ![job_id] =
        IF @ = NoRec
        THEN [job_id |-> job_id, source_key |-> "", status |-> status, updates |-> << kind >>]
        ELSE [@ EXCEPT !.status = status, !.updates = Append(@, kind)]]

\* DynamoDBService.create_job called with an item
CreateJob(job_data) ==
    /\ jobs' = PutJob(jobs, job_data)
    /\ last' = Result("create_job", job_data.job_id,
                      IF jobs[job_data.job_id] # NoRec
                      THEN "ConditionalCheckFailedException" ELSE "created")
    /\ UNCHANGED notJobs

\* the ways a call on the table or on the watermarking API ends: it returns,
\* it raises with nothing written, or it raises after the write went through
CallEnds == {"ok", "raised", "raised_after_write"}

\* create_watermark_job: job_id is a fresh uuid4; create is how create_job
\* ends, api the status the API returned or "raised", first and failsafe how
\* the update after the API and the one of the except clause end
CreateWatermarkJob(job_id, source_key, create, api, first, failsafe) ==
    LET created == IF create = "raised" THEN jobs
                   ELSE PutJob(jobs, JobRecord(job_id, source_key))
        submitted == create = "ok" /\ api # "raised"
        after_first == IF submitted /\ first # "raised"
                       THEN UpdateJob(created, job_id, api, "api_status")
                       ELSE created
        raised == ~(submitted /\ first = "ok")
        after_failsafe == IF raised /\ failsafe # "raised"
                          THEN UpdateJob(after_first, job_id, "failed", "failed")
                          ELSE after_first
    IN /\ jobs[job_id] = NoRec
       /\ create = "ok" \/ (api = "raised" /\ first = "ok")
       /\ submitted \/ first = "ok"
       /\ raised \/ failsafe = "ok"
       /\ jobs' = after_failsafe
       /\ last' = Result("create_watermark_job", job_id, IF raised THEN "raised" ELSE "returned")
       /\ UNCHANGED notJobs

\* ----------------------------------------------------------- specifications
EarliestChoices == {NoDate, 1}
LicenseEndChoices == {2, 3}

Submit ==
    \E d \in DAIds, l \in Licensees, e \in EarliestChoices, le \in LicenseEndChoices,
       comps \in (SUBSET CompIds) \ {{}}, x \in BOOLEAN :
        SubmitDA(d, l, e, le, comps, comps, x)

Environment ==
    \/ Advance
    \/ \E a \in AssetIds : IngestAsset(a)
    \/ \E a \in AssetIds : StorageDelete(a)
    \/ \E l \in Licensees, rec \in LicenseeRecs : ConfigureLicensee(l, rec)

Workers ==
    \/ \E d \in DAIds, has_ids \in BOOLEAN, queue_ok \in BOOLEAN :
            ManifestTick(d, has_ids, queue_ok)
    \/ \E d \in DAIds, transport_ok \in BOOLEAN,
          pick \in [AssetIds -> DAIds \cup {"none"}] :
            DeliveryTick(d, transport_ok, pick)
    \/ \E d \in DAIds : DeliveryTickStoreError(d)
    \/ DeliveryUpdateNext

\* the deployed workers
Next == Submit \/ Environment \/ Workers

Spec == Init /\ [][Next]_vars

\* track_file_delivery called directly, at any time, with any asset dictionary
NextTrack ==
    \/ Advance
    \/ \E d \in DAIds, asset \in ApiAssets : ApiTrackFileDelivery(d, asset)

SpecTrack == Init /\ [][NextTrack]_vars

\* the service methods called directly, next to the manifest worker, for a DA
\* of the mapped licensee whose license ends at the earliest end date
ApiLicenseEnd == CHOOSE le \in LicenseEndChoices : \A o \in LicenseEndChoices : le <= o

ApiSubmit ==
    \E d \in DAIds, e \in EarliestChoices, comps \in (SUBSET CompIds) \ {{}} :
        SubmitDA(d, "PrimeVideo", e, ApiLicenseEnd, comps, comps, FALSE)

ApiEnvironment ==
    \/ Advance
    \/ \E a \in AssetIds : IngestAsset(a)

ApiWorkers ==
    \/ \E d \in DAIds : ManifestTick(d, TRUE, FALSE)
    \/ DeliveryUpdateNext

\* process_delivery_for_da called directly, over tracker rows written by
\* direct track_file_delivery calls for the catalog's items
DeliveryCalls ==
    \/ \E d \in DAIds, pick \in [AssetIds -> DAIds \cup {"none"}] :
            ApiProcessDeliveryForDa(d, TRUE, pick)
    \/ \E d \in DAIds, asset \in CatalogAssetDicts(catalog) :
            ApiTrackFileDelivery(d, asset)

NextDelivery == ApiSubmit \/ ApiEnvironment \/ ApiWorkers \/ DeliveryCalls

SpecDelivery == Init /\ [][NextDelivery]_vars

\* the status updates called directly as well
ServiceCalls ==
    \/ DeliveryCalls
    \/ \E d \in DAIds, c \in CompIds : ApiUpdateComponentDeliveryStatus(d, c)
    \/ \E d \in DAIds : ApiUpdateDaDeliveryStatus(d)

NextApi == ApiSubmit \/ ApiEnvironment \/ ApiWorkers \/ ServiceCalls

SpecApi == Init /\ [][NextApi]_vars

\* a poll loop with a handler that may return or raise
NextPoll ==
    \/ \E m \in PollMsgs : PollSend(m)
    \/ \E m \in PollMsgs : PollReceive(m)
    \/ PollReceiveFails
    \/ \E body_ok \in BOOLEAN, handler_ok \in BOOLEAN, delete_ok \in BOOLEAN :
            PollHandle(body_ok, handler_ok, delete_ok)
    \/ \E m \in PollMsgs : PollVisibilityTimeout(m)
    \/ PollStop

SpecPoll == Init /\ [][NextPoll]_vars

\* manifest rows and title upserts of the ingest side
NextIngest ==
    \/ \E folder_cell \in FolderPathCells, filename \in Filenames, checksum \in Checksums :
            ProcessAssetRow(folder_cell, filename, checksum)
    \/ \E title_data \in TitleData : CreateIfNotExistsTitleInfo(title_data)
    \/ \E item \in TitleData : PutTitleInfo(item)

SpecIngest == Init /\ [][NextIngest]_vars

\* the validation worker over one package
NextValidate ==
    \/ Advance
    \/ \E asset_files \in SUBSET AssetKeys, has_csv \in BOOLEAN, csv_valid \in BOOLEAN,
          data_rows \in RowSeqs, digest \in [AssetKeys -> Checksums] :
            PackageArrives(asset_files, has_csv, csv_valid, data_rows, digest)
    \/ \E copy_failed \in SUBSET (AssetKeys \cup {CsvKey}) : ValidationTick(copy_failed)

SpecValidate == Init /\ [][NextValidate]_vars

\* generate_manifest called directly, over a catalog and tracker rows
\* written by direct track_file_delivery calls for either DA
NextManifest ==
    \/ ApiSubmit
    \/ \E a \in AssetIds : IngestAsset(a)
    \/ \E d \in DAIds, asset \in ApiAssets : ApiTrackFileDelivery(d, asset)
    \/ \E asset \in ApiAssets : OtherDaTracks(asset)
    \/ \E d \in DAIds, pick \in [AssetIds -> TrackerDAs \cup {"none"}] : GenerateManifest(d, pick)

SpecManifest == Init /\ [][NextManifest]_vars

\* apply_defaults called directly, and the two processors over one submission
NextSubmit ==
    \/ DefaultsRequested
    \/ ApplyDefaults
    \/ DaSubmitted
    \/ \E d \in DAIds, manifest_ok \in BOOLEAN, exception_ok \in BOOLEAN :
            CsvProcess(d, manifest_ok, exception_ok)
    \/ \E d \in DAIds : JsonProcess(d)

SpecSubmit == Init /\ [][NextSubmit]_vars

\* watermark jobs created by create_watermark_job, and create_job called
\* directly with the item of any job_id
NextJobs ==
    \/ \E job_id \in JobIds, source_key \in SourceKeys : CreateJob(JobRecord(job_id, source_key))
    \/ \E job_id \in JobIds, source_key \in SourceKeys, create \in CallEnds,
          api \in ApiStatuses \cup {"raised"}, first \in CallEnds, failsafe \in CallEnds :
            CreateWatermarkJob(job_id, source_key, create, api, first, failsafe)

SpecJobs == Init /\ [][NextJobs]_vars

\* the exception worker over submitted DAs, with components required or not
NextException ==
    \/ \E d \in DAIds, e \in EarliestChoices, comps \in (SUBSET CompIds) \ {{}}, x \in BOOLEAN :
          \E required \in SUBSET comps :
            SubmitDA(d, "PrimeVideo", e, ApiLicenseEnd, comps, required, x)
    \/ Advance
    \/ \E a \in AssetIds : IngestAsset(a)
    \/ \E a \in AssetIds : StorageDelete(a)
    \/ \E d \in DAIds, has_id \in BOOLEAN, store_ok \in BOOLEAN, email_ok \in BOOLEAN :
            ExceptionTick(d, has_id, store_ok, email_ok)

SpecException == Init /\ [][NextException]_vars

\* process_delivery_for_da called directly, over tracker rows written by
\* direct track_file_delivery calls that recorded the delivery of the
\* current or of an earlier revision of the catalog's items
DeliveredRevisions(cat) ==
    {asset \in ApiAssets :
        /\ asset.Asset_ID \in cat
        /\ asset.Version <= AssetVersion[asset.Asset_ID]
        /\ asset.Checksum = IF asset.Version = AssetVersion[asset.Asset_ID]
                            THEN AssetChecksum[asset.Asset_ID]
                            ELSE asset.Version}

NextRedelivery ==
    \/ ApiSubmit
    \/ ApiEnvironment
    \/ ApiWorkers
    \/ \E d \in DAIds, transport_ok \in BOOLEAN, pick \in [AssetIds -> TrackerDAs \cup {"none"}] :
            ApiProcessDeliveryForDa(d, transport_ok, pick)
    \/ \E d \in DAIds, asset \in DeliveredRevisions(catalog) :
            ApiTrackFileDelivery(d, asset)

SpecRedelivery == Init /\ [][NextRedelivery]_vars

\* a delivery message handled by two workers at once, over tracker rows
\* written by earlier track_file_delivery calls, for the revisions of the
\* catalog's items
NextConcurrentTrack ==
    \/ Advance
    \/ \E d \in DAIds, asset \in DeliveredRevisions(AssetIds) :
            ApiTrackFileDelivery(d, asset)
    \/ \E d \in DAIds, asset \in DeliveredRevisions(AssetIds) :
            DuplicateDelivery(d, asset)
    \/ \E w \in WorkerIds : TrackRead(w)
    \/ \E w \in WorkerIds : TrackWrite(w)

SpecConcurrentTrack == Init /\ [][NextConcurrentTrack]_vars

\* first-time title creations by concurrent callers of either service
NextConcurrentTitle ==
    \/ Advance
    \/ \E w \in WorkerIds, title_data \in TitleData : TitleGet(w, title_data)
    \/ \E w \in WorkerIds : TitlePut(w)
    \/ \E item \in TitleData : PutTitleInfo(item)

SpecConcurrentTitle == Init /\ [][NextConcurrentTitle]_vars

\* _infer_component_id called over the asset dictionaries above
NextInfer == \E asset \in InferAssets : InferComponent(asset)

SpecInfer == Init /\ [][NextInfer]_vars

\* two manifest workers handling the ticks of a DA, each between its read of
\* the DA record and its writes for any length of time
NextConcurrentManifest ==
    \/ ApiSubmit
    \/ ApiEnvironment
    \/ \E w \in WorkerIds, d \in DAIds : ManifestRead(w, d)
    \/ \E w \in WorkerIds, queue_ok \in BOOLEAN : ManifestAct(w, queue_ok)

SpecConcurrentManifest == Init /\ [][NextConcurrentManifest]_vars






\* ------------------------------------------------------------------ claims
Picks == [AssetIds -> DAIds \cup {"none"}]

\* C1: track_file_delivery with a non-empty asset id creates a row (NEW,
\* Revision_Count 0, both delivery dates = now) when none exists; on an
\* existing row a greater incoming Version gives REVISED and Revision_Count + 1,
\* any other Version gives NO_CHANGE and the same Revision_Count; in both
\* existing-row cases Checksum, Version and Date_Last_Delivered are overwritten.
TrackFileDeliveryContract ==
    [][\A d \in DAIds, asset \in ApiAssets :
          (last'.op = "track" /\ asset.Asset_ID # "" /\ ApiTrackFileDelivery(d, asset)) =>
            LET existing == tracker[d][asset.Asset_ID]
                row == tracker'[d][asset.Asset_ID]
            IN /\ row # NoRec
               /\ IF existing = NoRec
                  THEN /\ row.File_Status = "NEW"
                       /\ row.Revision_Count = 0
                       /\ row.Original_Delivery_Date = now
                       /\ row.Date_Last_Delivered = now
                  ELSE /\ IF asset.Version > existing.Version
                          THEN /\ row.File_Status = "REVISED"
                               /\ row.Revision_Count = existing.Revision_Count + 1
                          ELSE /\ row.File_Status = "NO_CHANGE"
                               /\ row.Revision_Count = existing.Revision_Count
                       /\ row.Checksum = asset.Checksum
                       /\ row.Version = asset.Version
                       /\ row.Date_Last_Delivered = now]_vars

\* a row created at one time was revised by a later call
TrackRevisedReached ==
    /\ last.op = "track"
    /\ tracker["d1"]["A1"] # NoRec
    /\ tracker["d1"]["A1"].File_Status = "REVISED"
    /\ tracker["d1"]["A1"].Revision_Count = 1
    /\ tracker["d1"]["A1"].Original_Delivery_Date < tracker["d1"]["A1"].Date_Last_Delivered

\* C2: after process_delivery_for_da returns with an outcome other than
\* outside_delivery_window or no_assets, every asset of the generated
\* manifest has a tracker row under the DA.
TrackerRowForEveryManifestAsset ==
    \A d \in DAIds :
        (last.op = "delivery" /\ last.da = d /\ last.outcome \in Tracked) =>
            \A a \in ManifestAssets(compTable, catalog, stored, d) :
                tracker[d][a] # NoRec

\* C3 (as the code has it): process_delivery_for_da returns
\* outside_delivery_window exactly when Earliest_Delivery_Date is absent, or
\* now < Earliest_Delivery_Date, or now > License_Period_End; and then it
\* changes no tracker row, component, DA field and transmits nothing.
OutsideWindowOrNoEarliestDate ==
    [][\A d \in DAIds, pick \in Picks :
          (last'.op = "delivery" /\ daTable[d] # NoRec
             /\ ApiProcessDeliveryForDa(d, TRUE, pick)) =>
            /\ (last'.outcome = "outside_delivery_window")
                 <=> \/ daTable[d].Earliest_Delivery_Date = NoDate
                     \/ now < daTable[d].Earliest_Delivery_Date
                     \/ now > daTable[d].License_Period_End
            /\ (last'.outcome = "outside_delivery_window") =>
                 /\ UNCHANGED << tracker, compTable, daTable, sentLog >>
                 /\ pendingNext' = "none"]_vars

\* a call before the window opens was answered outside_delivery_window
OutsideBeforeEarliestReached ==
    /\ last = Result("delivery", "d1", "outside_delivery_window")
    /\ daTable["d1"].Earliest_Delivery_Date # NoDate
    /\ now < daTable["d1"].Earliest_Delivery_Date

\* C3 (as stated): outside_delivery_window exactly when
\* now < Earliest_Delivery_Date or now > License_Period_End, and no side
\* effects then.
OutsideWindowExactly ==
    [][\A d \in DAIds, pick \in Picks :
          (last'.op = "delivery" /\ daTable[d] # NoRec
             /\ ApiProcessDeliveryForDa(d, TRUE, pick)) =>
            /\ (last'.outcome = "outside_delivery_window")
                 <=> \/ /\ daTable[d].Earliest_Delivery_Date # NoDate
                        /\ now < daTable[d].Earliest_Delivery_Date
                     \/ now > daTable[d].License_Period_End
            /\ (last'.outcome = "outside_delivery_window") =>
                 /\ UNCHANGED << tracker, compTable, daTable, sentLog >>
                 /\ pendingNext' = "none"]_vars

NextManifestCheckOnlyAfterSend ==
    [][\A d \in DAIds : daTable[d] # NoRec =>
          LET rec == licenseeTable[daTable[d].Licensee_ID]
              freq == IF rec # NoRec /\ rec.Manifest_Frequency # NoFreq
                      THEN rec.Manifest_Frequency
                      ELSE DEFAULT_MANIFEST_FREQUENCY
              old_check == daTable[d].Next_Manifest_Check
              new_check == daTable'[d].Next_Manifest_Check
          IN /\ (pendingNext = d /\ pendingNext' = "none") => new_check = now + freq
             /\ (pendingNext # d) => new_check = old_check
             /\ (pendingNext # d /\ pendingNext' = d) =>
                    /\ last' = Result("delivery", d, "manifest_sent")
                    /\ Len(sentLog'[d]) = Len(sentLog[d]) + 1
             /\ \A pick \in Picks :
                    (last'.op = "delivery" /\ last'.outcome \notin
                        {"error", "outside_delivery_window", "no_assets",
                         "no_changes", "frequency_limit"}
                       /\ DeliveryTick(d, FALSE, pick)) =>
                      /\ last'.outcome = "sqs_send_failed"
                      /\ sentLog' = sentLog
                      /\ pendingNext' = "none"]_vars

\* the write used the default because the licensee record was gone
DefaultFrequencyUsedReached ==
    /\ last = Result("update_next", "d1", "manifest_sent")
    /\ licenseeTable[daTable["d1"].Licensee_ID] = NoRec
    /\ daTable["d1"].Next_Manifest_Check = now + DEFAULT_MANIFEST_FREQUENCY

\* C6: a non-empty manifest with no New or Revised asset gives no_changes,
\* nothing transmitted, Next_Manifest_Check unchanged, and still the tracker
\* rows of the manifest assets, every component's Delivery_Status and the
\* DA's Delivery_Status recomputed and persisted at this call.
NoChangesStillPersists ==
    [][\A d \in DAIds, pick \in Picks :
          (last'.outcome = "no_changes" /\ ApiProcessDeliveryForDa(d, TRUE, pick)) =>
            /\ sentLog' = sentLog
            /\ pendingNext' = "none"
            /\ daTable'[d].Next_Manifest_Check = daTable[d].Next_Manifest_Check
            /\ \A a \in ManifestAssets(compTable, catalog, stored, d) :
                  /\ tracker'[d][a] # NoRec
                  /\ tracker'[d][a].Date_Last_Delivered = now
                  /\ tracker'[d][a].Version = AssetVersion[a]
            /\ \A c \in ComponentsForDa(compTable, d) :
                  ExpectedAssetsForComponent(catalog, c) # {} =>
                    /\ compTable'[d][c].Date_Last_Delivered = now
                    /\ compTable'[d][c].Delivery_Status =
                          ComponentStatusCalc(FilesByComponent(tracker', d, c),
                                              ExpectedAssetsForComponent(catalog, c),
                                              daTable[d].Is_Active)
            /\ daTable'[d].Date_Last_Delivered = now
            /\ daTable'[d].Delivery_Status =
                  DaStatusCalc({compTable'[d][c].Delivery_Status :
                                    c \in ComponentsForDa(compTable, d)},
                               daTable[d].Is_Active)]_vars

\* a call was answered no_changes
NoChangesReached ==
    last = Result("delivery", "d1", "no_changes")

\* C7: update_component_delivery_status leaves the component unchanged when
\* it has no expected catalog assets; else PENDING when no tracker row is
\* attributed to it; else COMPLETED when the delivered ids include every
\* expected id and the DA is active; else PARTIAL.
ComponentStatusRule ==
    [][\A d \in DAIds, c \in CompIds :
          (last'.op = "update_component" /\ compTable[d][c] # NoRec
             /\ ApiUpdateComponentDeliveryStatus(d, c)) =>
            LET expected == ExpectedAssetsForComponent(catalog, c)
                delivered == {a \in AssetIds : /\ tracker[d][a] # NoRec
                                               /\ tracker[d][a].Component_ID = c}
                status == compTable'[d][c].Delivery_Status
            IN IF expected = {} THEN compTable'[d][c] = compTable[d][c]
               ELSE IF delivered = {} THEN status = "PENDING"
               ELSE IF expected \subseteq delivered /\ daTable[d].Is_Active
                    THEN status = "COMPLETED"
                    ELSE status = "PARTIAL"]_vars

\* a direct call set a component COMPLETED
ComponentCompletedReached ==
    \E c \in CompIds :
        /\ last = Result("update_component", "d1", c)
        /\ compTable["d1"][c] # NoRec
        /\ compTable["d1"][c].Delivery_Status = "COMPLETED"

\* C8: update_da_delivery_status gives PENDING when every component is
\* PENDING, COMPLETED when every component is COMPLETED and the DA is active,
\* PARTIAL otherwise (all COMPLETED with an inactive DA included).
DaStatusRule ==
    [][\A d \in DAIds :
          (last'.op = "update_da" /\ ComponentsForDa(compTable, d) # {}
             /\ ApiUpdateDaDeliveryStatus(d)) =>
            LET statuses == {compTable[d][c].Delivery_Status :
                                c \in ComponentsForDa(compTable, d)}
                status == daTable'[d].Delivery_Status
            IN IF statuses = {"PENDING"} THEN status = "PENDING"
               ELSE IF statuses = {"COMPLETED"} /\ daTable[d].Is_Active
                    THEN status = "COMPLETED"
                    ELSE status = "PARTIAL"]_vars

\* a direct call found every component COMPLETED on an inactive DA
AllCompletedInactiveReached ==
    /\ last.op = "update_da"
    /\ ~daTable["d1"].Is_Active
    /\ \A c \in ComponentsForDa(compTable, "d1") :
          compTable["d1"][c].Delivery_Status = "COMPLETED"
    /\ daTable["d1"].Delivery_Status = "PARTIAL"

\* C9: in every state, a DA with Is_Active = false has no component, and is
\* itself not, in Delivery_Status COMPLETED.
InactiveNeverCompleted ==
    \A d \in DAIds :
        (daTable[d] # NoRec /\ ~daTable[d].Is_Active) =>
            /\ daTable[d].Delivery_Status # "COMPLETED"
            /\ \A c \in ComponentsForDa(compTable, d) :
                  compTable[d][c].Delivery_Status # "COMPLETED"

\* C10: a DA is created inactive; a manifest tick before
\* Earliest_Delivery_Date leaves Is_Active as it was; and Is_Active only ever
\* turns true in a manifest tick handled at t with
\* Earliest_Delivery_Date <= t < License_Period_End.
ActivationOnlyInsideWindow ==
    [][\A d \in DAIds :
          /\ (daTable[d] = NoRec /\ daTable'[d] # NoRec) => ~daTable'[d].Is_Active
          /\ (daTable[d] # NoRec /\ last'.op = "manifest" /\ last'.da = d
                /\ daTable[d].Earliest_Delivery_Date # NoDate
                /\ now < daTable[d].Earliest_Delivery_Date) =>
                daTable'[d].Is_Active = daTable[d].Is_Active
          /\ (daTable[d] # NoRec /\ ~daTable[d].Is_Active /\ daTable'[d].Is_Active) =>
                /\ last'.op = "manifest"
                /\ daTable[d].Earliest_Delivery_Date # NoDate
                /\ daTable[d].Earliest_Delivery_Date <= now
                /\ now < daTable[d].License_Period_End]_vars

OriginalDeliveryDateSetOnce ==
    [][\A d \in DAIds :
          /\ \A a \in AssetIds :
                IF tracker[d][a] = NoRec
                THEN tracker'[d][a] # NoRec =>
                        tracker'[d][a].Original_Delivery_Date = now
                ELSE /\ tracker'[d][a] # NoRec
                     /\ tracker'[d][a].Original_Delivery_Date =
                            tracker[d][a].Original_Delivery_Date
          /\ \A c \in CompIds : compTable[d][c] # NoRec =>
                LET before == compTable[d][c].Original_Delivery_Date
                    after == compTable'[d][c].Original_Delivery_Date
                    delivered == {a \in AssetIds : /\ tracker[d][a] # NoRec
                                                   /\ tracker[d][a].Component_ID = c}
                IN /\ before # NoDate => after = before
                   /\ (before = NoDate /\ after # NoDate) =>
                        /\ after = now
                        /\ last'.op \in {"update_component", "delivery"}
                        /\ {a \in AssetIds : /\ tracker'[d][a] # NoRec
                                             /\ tracker'[d][a].Component_ID = c} # {}
                   /\ (before = NoDate /\ delivered # {} /\ last'.op = "update_component"
                         /\ ApiUpdateComponentDeliveryStatus(d, c)) => after = now
          /\ daTable[d] # NoRec =>
                LET before == daTable[d].Original_Delivery_Date
                    after == daTable'[d].Original_Delivery_Date
                    statuses == {compTable[d][c].Delivery_Status :
                                    c \in ComponentsForDa(compTable, d)}
                IN /\ before # NoDate => after = before
                   /\ (before = NoDate /\ after # NoDate) =>
                        /\ after = now
                        /\ last'.op \in {"update_da", "delivery"}
                        /\ \E c \in ComponentsForDa(compTable, d) :
                              compTable'[d][c].Delivery_Status # "PENDING"
                   /\ (before = NoDate /\ statuses # {"PENDING"} /\ last'.op = "update_da"
                         /\ ApiUpdateDaDeliveryStatus(d)) => after = now]_vars

\* a tracker row, its component and the DA were all updated again after the
\* step that set their Original_Delivery_Date
OriginalDateKeptReached ==
    /\ last.op = "delivery"
    /\ daTable["d1"] # NoRec
    /\ daTable["d1"].Original_Delivery_Date # NoDate
    /\ daTable["d1"].Original_Delivery_Date < daTable["d1"].Date_Last_Delivered
    /\ \E c \in CompIds :
          /\ compTable["d1"][c] # NoRec
          /\ compTable["d1"][c].Original_Delivery_Date # NoDate
          /\ compTable["d1"][c].Original_Delivery_Date
                < compTable["d1"][c].Date_Last_Delivered
    /\ \E a \in AssetIds :
          /\ tracker["d1"][a] # NoRec
          /\ tracker["d1"][a].Original_Delivery_Date
                < tracker["d1"][a].Date_Last_Delivered

\* C13: track_file_delivery called with an empty asset id raises and leaves
\* the file-delivery table as it was, and in every reachable state no row of
\* that table is stored under an empty Asset_Id.
EmptyAssetIdNeverTracked ==
    /\ [](\A d \in DAIds : tracker[d][""] = NoRec)
    /\ [][\A d \in DAIds, asset \in ApiAssets :
            (last'.op = "track" /\ asset.Asset_ID = ""
               /\ ApiTrackFileDelivery(d, asset)) =>
              /\ last'.outcome = "raised"
              /\ tracker' = tracker]_vars

\* a call with an empty asset id was refused while the table held a row
EmptyAssetIdRefusedReached ==
    /\ last = Result("track", "d1", "raised")
    /\ \E a \in AssetIds : tracker["d1"][a] # NoRec

\* the attributes of a file-delivery item other than its two timestamps
RowWithoutTimestamps(row) ==
    IF row = NoRec THEN NoRec
    ELSE [ File_Status |-> row.File_Status,
           Version |-> row.Version,
           Checksum |-> row.Checksum,
           Revision_Count |-> row.Revision_Count,
           Component_ID |-> row.Component_ID ]

DeleteOnlyAfterHandlerReturns ==
    /\ [](\A m \in PollMsgs :
            last = Result("poll", m, "handler_raised") =>
                /\ poll.cur = "none"
                /\ \/ poll.queue[m] = "visible"
                   \/ /\ poll.queue[m] = "inflight"
                      /\ ENABLED PollVisibilityTimeout(m))
    /\ [][\A m \in PollMsgs :
            /\ (poll.queue[m] # "deleted" /\ poll'.queue[m] = "deleted") =>
                  /\ poll.cur = m
                  /\ \A body_ok \in BOOLEAN, handler_ok \in BOOLEAN, delete_ok \in BOOLEAN :
                        PollHandle(body_ok, handler_ok, delete_ok) => handler_ok
            /\ \A body_ok \in BOOLEAN, delete_ok \in BOOLEAN :
                  (poll.cur = m /\ body_ok /\ PollHandle(body_ok, FALSE, delete_ok)) =>
                    /\ poll'.queue[m] = poll.queue[m]
                    /\ poll'.queue[m] # "deleted"
                    /\ poll'.running = poll.running
                    /\ poll'.cur = "none"]_vars

\* the handler raised on a message that had been received before
RaisedOnRedeliveredReached ==
    /\ last = Result("poll", "m1", "handler_raised")
    /\ poll.receives["m1"] = 2
    /\ poll.queue["m1"] = "inflight"
    /\ poll.running

\* C16: when the handling of a delivery-tracking message fails with a
\* transient dependency error, the error leaves the handler and the message
\* stays in its queue for redelivery.
TransientErrorLeavesMessage ==
    [][\A d \in DAIds :
          (last'.outcome = "store_error" /\ DeliveryTickStoreError(d)) =>
            d \in deliveryQueue']_vars

\* C17: a manifest-generation or delivery-tracking message whose handling
\* finds the DA or the licensee record missing results in exactly one
\* dead-letter message that carries the message's identifiers and the reason.
ConsistencyFailureDeadLettered ==
    \A d \in DAIds :
        (last.da = d /\ last.op \in {"manifest", "delivery"}
           /\ last.outcome \in {"da_not_found", "error"}) =>
            /\ Len(last.dlq) = 1
            /\ last.dlq[1].original_message.da_id = d
            /\ last.dlq[1].error_reason # ""

\* the stored items of one (folder, filename)
ItemsOf(tbl, folder_path, filename) ==
    {i \in tbl : i.Folder_Path = folder_path /\ i.Filename = filename}

\* C18: the first upload of a (folder, filename) is stored with Version 1;
\* an upload whose checksum equals that of the latest stored version of the
\* (folder, filename) stores nothing; an upload whose checksum differs from
\* the latest stored version (a checksum of an older version included) is
\* stored with latest Version + 1; the latest Version never decreases.
VersionAssignment ==
    [][\A folder_cell \in FolderPathCells, filename \in Filenames, checksum \in Checksums :
          (last'.op = "asset_row" /\ ProcessAssetRow(folder_cell, filename, checksum)) =>
            LET folder_path == NormalizeS3Path(folder_cell)
                same == ItemsOf(assetInfo, folder_path, filename)
                latest == CHOOSE i \in same : \A o \in same : o.Version <= i.Version
                stored_as(v) == assetInfo' = assetInfo \cup
                                    {[ Folder_Path |-> folder_path, Filename |-> filename,
                                       Checksum |-> checksum, Version |-> v ]}
            IN /\ IF same = {} THEN stored_as(1)
                  ELSE IF latest.Checksum = checksum THEN assetInfo' = assetInfo
                  ELSE stored_as(latest.Version + 1)
               /\ \A i \in same : \E n \in ItemsOf(assetInfo', folder_path, filename) :
                      n.Version >= i.Version]_vars

\* the key of a title item
TitleKeyOf(title_data) == << title_data.Title_ID, title_data.Version_ID >>

\* C19: a first-time title upsert for a (Title_ID, Version_ID) that has no
\* item stores the caller's attributes under that key and nothing else; a
\* further upsert for the same key reports that the title already exists and
\* writes nothing, so the stored item stays the one of the first call.
TitleUpsertIdempotent ==
    /\ [](last.op \in {"create_title", "put_title"} /\ last.outcome # "raised"
            => titleInfo[TitleKeyOf(last.da)] # NoRec)
    /\ [][\A title_data \in TitleData :
            (last'.op \in {"create_title", "put_title"} /\ title_data.Title_ID # ""
               /\ (CreateIfNotExistsTitleInfo(title_data) \/ PutTitleInfo(title_data))) =>
              LET key == TitleKeyOf(title_data)
              IN /\ \A other \in TitleKeys \ {key} : titleInfo'[other] = titleInfo[other]
                 /\ IF titleInfo[key] = NoRec
                    THEN /\ titleInfo'[key] # NoRec
                         /\ titleInfo'[key].Title_Name = title_data.Title_Name
                         /\ last'.outcome \in {"is_new", "inserted"}
                    ELSE /\ titleInfo'[key] = titleInfo[key]
                         /\ last'.outcome = "already_exists"
                 /\ (last.op \in {"create_title", "put_title"} /\ last.outcome # "raised"
                       /\ TitleKeyOf(last.da) = key) =>
                        /\ titleInfo' = titleInfo
                        /\ last'.outcome = "already_exists"]_vars

\* a second upsert with other attributes found the item of the first call
SecondUpsertRefusedReached ==
    /\ last.op \in {"create_title", "put_title"}
    /\ last.outcome = "already_exists"
    /\ titleInfo[TitleKeyOf(last.da)] # NoRec
    /\ titleInfo[TitleKeyOf(last.da)].Title_Name # last.da.Title_Name


\* the folder a path names, whatever its separators and with or without a
\* closing one
FolderOf(path) == StripSlash(ReplaceBackslashes(path))

\* some data row of the manifest declares the folder of the uploaded key
DeclaredInManifest(key, data_rows) ==
    \E i \in DOMAIN data_rows :
        FolderOf(data_rows[i].Folder_Path) = FolderOf(BeforeLastSlash(WithoutStage(key)))

\* C20: on a validation tick, a package in VALID_STRUCTURE past the cutoff is
\* classified, the cases read in order: no manifest among its files gives
\* FAILED with every file copied to the error area; a manifest with zero data
\* rows gives INVALID_CSV; 0 < uploaded < rows gives MISSING_FILES;
\* uploaded > rows with an uploaded folder path the manifest does not declare
\* gives EXTRA_FILES, returning only the undeclared files and the manifest;
\* uploaded > rows with no undeclared file, or uploaded = rows, goes on to
\* checksum validation.
PackageClassification ==
    [][(last'.op = "validation" /\ (\E copy_failed \in SUBSET package.upload : ValidationTick(copy_failed))
          /\ package.CreatedDate + ValidationCutoff <= now) =>
        LET file_keys == package.upload
            has_csv == \E key \in file_keys : IsCsvKey(key)
            asset_files == {k \in file_keys : ~IsCsvKey(k)}
            uploaded == Cardinality(asset_files)
            rows == Len(package.data_rows)
            undeclared == {k \in asset_files : ~DeclaredInManifest(k, package.data_rows)}
        IN /\ ~has_csv =>
                /\ last'.outcome = "FAILED"
                /\ package'.status = "FAILED"
                /\ {ErrorKey(k) : k \in file_keys} \subseteq package'.error
           /\ (has_csv /\ package.csv_valid) =>
                /\ rows = 0 => last'.outcome = "INVALID_CSV"
                /\ (0 < uploaded /\ uploaded < rows) => last'.outcome = "MISSING_FILES"
                /\ (rows > 0 /\ uploaded > rows /\ undeclared # {}) =>
                        /\ last'.outcome = "EXTRA_FILES"
                        /\ last'.files = undeclared \cup {CsvKey}
                /\ (rows > 0 /\ ((uploaded > rows /\ undeclared = {}) \/ uploaded = rows)) =>
                        last'.outcome \in {"SUCCESS", "VALID_STRUCTURE", "MISMATCH_CHECKSUM"}
      ]_vars


\* the uploaded files whose digest differs from the checksum of the data
\* row declaring their folder
Mismatched(pkg) ==
    {k \in pkg.upload :
        /\ ~IsCsvKey(k)
        /\ \E i \in DOMAIN pkg.data_rows :
              /\ FolderOf(pkg.data_rows[i].Folder_Path)
                    = FolderOf(BeforeLastSlash(WithoutStage(k)))
              /\ pkg.data_rows[i].Checksum # pkg.digest[k]}

\* C21: a package with as many uploaded files as manifest rows, one of whose
\* files has a digest other than the checksum declared for its folder, ends
\* the validation tick in MISMATCH_CHECKSUM with the mismatched files and
\* the manifest returned for quarantine; it does not reach SUCCESS and no
\* mismatched file is promoted to the asset repository.
MismatchNeverPromoted ==
    [][(last'.op = "validation" /\ last'.outcome # "skipped"
          /\ package # NoPackage /\ package.status = "VALID_STRUCTURE"
          /\ CsvKey \in package.upload /\ package.csv_valid
          /\ Len(package.data_rows) > 0
          /\ Cardinality(package.upload \ {CsvKey}) = Len(package.data_rows)
          /\ Mismatched(package) # {}) =>
            /\ last'.outcome = "MISMATCH_CHECKSUM"
            /\ last'.files = Mismatched(package) \cup {CsvKey}
            /\ package'.status = "MISMATCH_CHECKSUM"
            /\ \A k \in Mismatched(package) : WithoutStage(k) \notin package'.repo
      ]_vars

\* C22: on a validation tick of any outcome, a key leaves Upload/ only when
\* its copy is present at the destination, the asset repository or the
\* error area; a copy that failed never leads to the deletion of its source.
DeleteOnlyAfterConfirmedCopy ==
    [][(last'.op = "validation" /\ package # NoPackage /\ package' # NoPackage) =>
            \A k \in package.upload \ package'.upload :
                ErrorKey(k) \in package'.error \/ WithoutStage(k) \in package'.repo
      ]_vars

\* C23: when a package has more uploaded files than manifest rows and some
\* of them are undeclared, the tick answers EXTRA_FILES and quarantines the
\* undeclared files and the manifest only; the next tick past it takes the
\* remaining declared files to checksum validation, and to SUCCESS when no
\* digest differs.
RemainingFilesProceed ==
    /\ [][(last'.op = "validation" /\ last'.outcome = "EXTRA_FILES") =>
            LET undeclared == {k \in package.upload \ {CsvKey} :
                                  ~DeclaredInManifest(k, package.data_rows)}
            IN /\ last'.files = undeclared \cup {CsvKey}
               /\ package.upload \ package'.upload = undeclared \cup {CsvKey}
          ]_vars
    /\ [][(last.op = "validation" /\ last.outcome = "EXTRA_FILES"
             /\ last'.op = "validation" /\ last'.outcome # "skipped"
             /\ package.upload # {}) =>
                /\ last'.outcome \in {"SUCCESS", "MISMATCH_CHECKSUM"}
                /\ Mismatched(package) = {} => last'.outcome = "SUCCESS"
          ]_vars


\* C24: for each asset generate_manifest(da_id) keeps, file_status is New
\* when the tracker row of (da_id, asset) is absent or has File_Status NEW,
\* Revised when the catalog Version of the asset is greater than that row's
\* Version, and No Change otherwise.
ManifestFileStatusByDaRow ==
    last.op = "generate_manifest" =>
        \A a \in DOMAIN last.outcome :
            LET row == tracker[last.da][a]
            IN last.outcome[a] =
                 IF row = NoRec \/ row.File_Status = "NEW" THEN "New"
                 ELSE IF AssetVersion[a] > row.Version THEN "Revised"
                 ELSE "No Change"


\* the expected assets of a component that are absent from storage
AbsentExpected(component_id) ==
    {a \in MissingAssetsExpected(catalog, MissingAssetsFolderStructure(component_id)) :
        a \notin stored}

\* C25: the report of check_missing_assets_for_da lists exactly the
\* components of the DA with Required_Flag TRUE that have an expected asset
\* absent from storage, each with exactly its absent expected assets;
\* total_missing_count is the number of listed missing assets and
\* has_missing_assets is true exactly when it is positive.
MissingReportExact ==
    (last.op = "exception" /\ last.report # NoRec) =>
        LET report == last.report
            listed == {c \in ComponentsForDa(compTable, last.da) :
                          /\ compTable[last.da][c].Required_Flag = "TRUE"
                          /\ AbsentExpected(c) # {}}
        IN /\ DOMAIN report.missing_components = listed
           /\ \A c \in DOMAIN report.missing_components :
                 report.missing_components[c] = AbsentExpected(c)
           /\ report.total_missing_count = TotalMissingCount(report.missing_components)
           /\ report.has_missing_assets <=> report.total_missing_count > 0

DefaultsDeriveOnlyAbsentDates ==
    (last.op = "apply_defaults" /\ last.outcome = "returned") =>
        LET given == submission.da_data
            out == last.result
            config == submission.config
        IN /\ \A f \in DateFields :
                Truthy(given[f]) =>
                    /\ out[f].kind = "date"
                    /\ ParseDate(out[f]) = ParseDate(given[f])
           /\ ~Truthy(given["Due_Date"]) =>
                IF Truthy(given["License_Period_Start"]) /\ config.Due_Date_Window > 0
                THEN /\ out["Due_Date"].kind = "date"
                     /\ ParseDate(out["Due_Date"]) =
                           ParseDate(given["License_Period_Start"])
                              - config.Due_Date_Window * DAY
                ELSE ~Truthy(out["Due_Date"])
           /\ ~Truthy(given["Earliest_Delivery_Date"]) =>
                IF ~Truthy(out["Due_Date"]) THEN ~Truthy(out["Earliest_Delivery_Date"])
                ELSE IF config.Earliest_Delivery > 0
                THEN /\ out["Earliest_Delivery_Date"].kind = "date"
                     /\ ParseDate(out["Earliest_Delivery_Date"]) =
                           ParseDate(out["Due_Date"]) - config.Earliest_Delivery * DAY
                ELSE out["Earliest_Delivery_Date"] = out["Due_Date"]
           /\ ~Truthy(given["Exception_Notification_Date"]) =>
                IF Truthy(out["Due_Date"]) /\ config.Exception_Notification > 0
                THEN /\ out["Exception_Notification_Date"].kind = "date"
                     /\ ParseDate(out["Exception_Notification_Date"]) =
                           ParseDate(out["Due_Date"]) - config.Exception_Notification * DAY
                ELSE ~Truthy(out["Exception_Notification_Date"])

\* a start supplied with a UTC offset, the Due_Date derived from it, the
\* Earliest_Delivery_Date set to that Due_Date and no notification date
DueDateDerivedFromOffsetStartReached ==
    /\ last.op = "apply_defaults"
    /\ last.outcome = "returned"
    /\ submission.da_data["License_Period_Start"].kind = "date"
    /\ submission.da_data["License_Period_Start"].offset # 0
    /\ ~Truthy(submission.da_data["Due_Date"])
    /\ ~Truthy(submission.da_data["Earliest_Delivery_Date"])
    /\ ~Truthy(submission.da_data["Exception_Notification_Date"])
    /\ submission.config.Due_Date_Window > 0
    /\ submission.config.Earliest_Delivery = 0
    /\ submission.config.Exception_Notification = 0
    /\ Truthy(last.result["Due_Date"])
    /\ last.result["Earliest_Delivery_Date"] = last.result["Due_Date"]
    /\ ~Truthy(last.result["Exception_Notification_Date"])

\* a date field of the submission is present and cannot be parsed
HasUnparseableDate(da_data) == \E f \in DateFields : da_data[f] = Garbage

\* C28: when one of the five date fields of a submission is present but
\* unparseable, apply_defaults raises a validation error and returns no
\* defaulted data, and the CSV or JSON processor handling the submission
\* raises without writing a DA record, a component or a schedule.
UnparseableDateRejected ==
    [][ /\ (last'.op = "apply_defaults" /\ HasUnparseableDate(submission.da_data)) =>
              /\ last'.outcome = "raised"
              /\ last'.error \in DateFields
              /\ submission.da_data[last'.error] = Garbage
              /\ last'.result = NoRec
        /\ (last'.op = "process" /\ HasUnparseableDate(submission.da_data)) =>
              /\ last'.outcome = "raised"
              /\ last'.error \in {"missing_required_fields", "no_components", "invalid_date"}
              /\ (/\ Truthy(submission.da_data["License_Period_Start"])
                  /\ Truthy(submission.da_data["License_Period_End"])
                  /\ submission.components # {}) => last'.error = "invalid_date"
              /\ last'.calls = << >>
              /\ daTable' = daTable
              /\ compTable' = compTable
              /\ schedules' = schedules ]_vars

\* a submission with all required fields and an unparseable
\* Exception_Notification_Date was refused, and nothing is stored for it
UnparseableNotificationDateRefusedReached ==
    /\ last.op = "process"
    /\ last.outcome = "raised"
    /\ last.error = "invalid_date"
    /\ submission.da_data["Exception_Notification_Date"] = Garbage
    /\ \A f \in DateFields \ {"Exception_Notification_Date"} : submission.da_data[f] # Garbage
    /\ daTable[last.da] = NoRec
    /\ \A c \in CompIds : compTable[last.da][c] = NoRec
    /\ schedules = {}

\* the positions of a call in the calls a processor made
CallPositions(calls, name) == {i \in DOMAIN calls : calls[i] = name}

\* C29: a CSV or JSON submission that passes validation and defaulting is
\* accepted: the processor writes the DA record and every component, and
\* only then creates the manifest schedule starting at
\* Earliest_Delivery_Date and the exception schedule at
\* Exception_Notification_Date, each when its date is set and the scheduler
\* takes the call.
AcceptedSubmissionPersistedThenScheduled ==
    [][ (last'.op = "process" /\ ValidationError(submission) = "none") =>
          LET d == last'.da
              calls == last'.calls
              data == ApplyDefaultsResult(submission.da_data, submission.config).data
              earliest == data["Earliest_Delivery_Date"]
              notification == data["Exception_Notification_Date"]
              writes == CallPositions(calls, "create_da_record")
                           \cup CallPositions(calls, "create_component")
              scheduling == CallPositions(calls, "create_manifest_schedule")
                               \cup CallPositions(calls, "create_exception_notification_schedule")
          IN /\ last'.outcome = "created"
             /\ daTable'[d] # NoRec
             /\ \A c \in CompIds : compTable'[d][c] # NoRec <=> c \in submission.components
             /\ Cardinality(CallPositions(calls, "create_component"))
                   = Cardinality(submission.components)
             /\ \A w \in writes, sc \in scheduling : w < sc
             /\ (Truthy(earliest) /\ "create_manifest_schedule" \notin last'.failed) =>
                   /\ ManifestSchedule(d) \in schedules'
                   /\ last'.manifest_start = ParseDate(earliest)
             /\ (Truthy(notification)
                   /\ "create_exception_notification_schedule" \notin last'.failed) =>
                   /\ ExceptionSchedule(d) \in schedules'
                   /\ last'.exception_at = ParseDate(notification)
             /\ ~Truthy(earliest) => ManifestSchedule(d) \notin schedules'
             /\ ~Truthy(notification) => ExceptionSchedule(d) \notin schedules' ]_vars

\* C30: create_job for a job_id that has a record fails and leaves the
\* stored record as it is, and a job record receives at most two updates
\* after its creation: one with the status the external submission
\* returned, one marking it failed.
JobCreatedOnceUpdatedAtMostTwice ==
    /\ [](\A j \in JobIds :
            jobs[j] # NoRec =>
                jobs[j].updates \in {<< >>, << "api_status" >>, << "failed" >>,
                                     << "api_status", "failed" >>})
    /\ [][ (last'.op = "create_job" /\ jobs[last'.da] # NoRec) =>
              /\ last'.outcome = "ConditionalCheckFailedException"
              /\ jobs' = jobs ]_vars

\* create_job was refused for a job_id whose record had already been updated
\* with the status of the submission
CreateRefusedForUpdatedJobReached ==
    /\ last.op = "create_job"
    /\ last.outcome = "ConditionalCheckFailedException"
    /\ jobs[last.da].updates # << >>
    /\ jobs[last.da].status \in ApiStatuses

\* C31: an asset that a delivery tick counted as New or Revised without
\* transmitting (frequency_limit or sqs_send_failed) is reported as New or
\* Revised in the manifest a later tick of the same DA transmits, when the
\* asset is still in the manifest and its tracker rows are as that tick left them
CountedChangeTransmittedLater ==
    [][(/\ last'.op = "delivery"
        /\ last'.outcome = "manifest_sent"
        /\ untransmitted[last'.da] # NoRec)
       => LET d == last'.da
          IN \A a \in untransmitted[d].files :
                (/\ a \in ManifestAssets(compTable, catalog, stored, d)
                 /\ tracker[d] = untransmitted[d].rows)
                => EnrichedFileStatus(tracker', d, a) \in {"New", "Revised"}]_vars


\* C38: every manifest process_delivery_for_da transmits holds at least one
\* asset whose file_status, as the licensee reads it, is New or Revised
TransmittedManifestReportsChange ==
    [][(last'.op = "delivery" /\ last'.outcome = "manifest_sent")
       => \E a \in ManifestAssets(compTable, catalog, stored, last'.da) :
             EnrichedFileStatus(tracker', last'.da, a) \in {"New", "Revised"}]_vars

\* C32: when both workers have handled one delivery whose Version is greater
\* than the stored Version, and nothing else wrote the row, Revision_Count
\* has grown by exactly 1
BothTracked(d, a) ==
    \A w \in WorkerIds :
        /\ workers[w].pc = "track_done"
        /\ workers[w].da = d
        /\ TrackedAssetId(workers[w].asset) = a
        /\ workers[w].before # NoRec
        /\ workers[w].asset.Version > workers[w].before.Version
        /\ workers[w].calls = apiCalls

DuplicateDeliveryCountsOnce ==
    \A d \in DAIds, a \in AssetIds :
        BothTracked(d, a) =>
            tracker[d][a].Revision_Count = workers["w1"].before.Revision_Count + 1

\* C33: whatever the interleaving of the title creations, a title item that
\* exists is never written again: every step leaves the items of the keys
\* that had one as they were
ExistingTitleNeverOverwritten ==
    [][\A key \in TitleKeys :
          titleInfo[key] # NoRec => titleInfo'[key] = titleInfo[key]]_vars

\* the path _infer_component_id matches: separators normalised, the trailing
\* filename and the title/version prefix stripped
InferredPath(asset) ==
    StripTitlePrefix(StripFilename(StripSlash(ReplaceBackslashes(asset.Folder_Path)),
                                   asset.Filename))

\* folder equals the path or is a prefix of it that ends where a '/' follows
SlashBoundedPrefix(folder, path) ==
    \/ path = folder
    \/ /\ Len(path) > Len(folder)
       /\ \A i \in 1..Len(folder) : path[i] = folder[i]
       /\ path[Len(folder) + 1] = "/"

\* C34: _infer_component_id returns the configured component whose folder is
\* the longest one that equals the stripped path or is a '/'-bounded prefix
\* of it, and UNKNOWN when no configured folder is one
InferReturnsLongestBoundedPrefix ==
    last.op = "infer" =>
        LET path == InferredPath(last.da)
            candidates == {c \in CompIds : SlashBoundedPrefix(FolderStructure(c), path)}
        IN IF candidates = {}
           THEN last.outcome = "UNKNOWN"
           ELSE /\ last.outcome \in candidates
                /\ \A o \in candidates :
                      Len(FolderStructure(o)) <= Len(FolderStructure(last.outcome))

\* a path under the nested folder a/b, which the folder a also bounds, was
\* given to the component of a/b
NestedFolderInferredReached ==
    /\ last.op = "infer"
    /\ last.outcome = "C2"
    /\ SlashBoundedPrefix(FolderStructure("C1"), InferredPath(last.da))
    /\ InferredPath(last.da) = <<"a", "/", "b", "/", "c">>

\* the statuses of a package that is not accepted
RejectedStatuses ==
    {"MISSING_FILES", "EXTRA_FILES", "MISMATCH_CHECKSUM", "INVALID_CSV", "FAILED"}

\* C35: a validation tick that ends the package in MISSING_FILES, EXTRA_FILES,
\* MISMATCH_CHECKSUM, INVALID_CSV or FAILED leaves the asset table as it was:
\* no item is added and no Version is assigned
RejectedPackageAddsNoAsset ==
    [][(last'.op = "validation" /\ last'.outcome \in RejectedStatuses)
       => assetInfo' = assetInfo]_vars

\* C36: once a manifest tick has set a DA inactive because the license period
\* has ended, no step of any manifest worker makes it active again
DeactivatedStaysInactive ==
    [][(last.op = "manifest" /\ last.outcome = "license_ended")
       => ~daTable'[last.da].Is_Active]_vars

\* the file-delivery table of the run in which the other DA tracked nothing
WithoutOtherDa(trk) == [trk EXCEPT ![OtherDa] = [a \in TrackerKeys |-> NoRec]]

\* C37: the file_status values generate_manifest(d) returns are those it
\* returns in the run that differs only in that the other DA, sharing the
\* catalog's assets, tracked no delivery
ManifestIndependentOfOtherDa ==
    last.op = "generate_manifest" =>
        \A pick \in ScanPicks(WithoutOtherDa(tracker)) :
            ManifestStatuses(WithoutOtherDa(tracker), DOMAIN last.outcome, pick)
                = last.outcome

\* the DA is active and in its delivery window, and every component of it
\* has expected catalog assets, all of them present in storage
AllExpectedStored(d) ==
    /\ daTable[d] # NoRec
    /\ daTable[d].Is_Active
    /\ IsWithinDeliveryWindow(daTable[d], now)
    /\ \A c \in ComponentsForDa(compTable, d) :
          /\ ExpectedAssetsForComponent(catalog, c) # {}
          /\ ExpectedAssetsForComponent(catalog, c) \subseteq stored

\* C39: when the DA is active, in its window and every expected asset of each
\* of its components is in storage, a delivery tick that ran its status
\* updates leaves every component and the DA COMPLETED, nested component
\* folders included; stated here for the ticks after which every expected
\* asset has a tracker row under the DA
DeliveryTickCompletesAll ==
    [][(/\ last'.op = "delivery"
        /\ last'.outcome \in Tracked
        /\ AllExpectedStored(last'.da)
        /\ \A c \in ComponentsForDa(compTable, last'.da) :
              \A a \in ExpectedAssetsForComponent(catalog, c) :
                  tracker'[last'.da][a] # NoRec)
       => /\ \A c \in ComponentsForDa(compTable, last'.da) :
                compTable'[last'.da][c].Delivery_Status = "COMPLETED"
          /\ daTable'[last'.da].Delivery_Status = "COMPLETED"]_vars

\* the tracker row of (d, a) records the delivery of an earlier revision of
\* the catalog item a: lower Version, other Checksum
RedeliveryDue(d, a) ==
    /\ tracker[d][a] # NoRec
    /\ tracker[d][a].Version < AssetVersion[a]
    /\ tracker[d][a].Checksum # AssetChecksum[a]

\* C40: for a file delivered to the DA and ingested again with another
\* checksum, the manifest the next delivery tick generates reports Revised,
\* and the tick leaves its tracker row REVISED with Revision_Count one higher
ReingestedFileRevised ==
    [][(last'.op = "delivery" /\ last'.outcome \in Tracked)
       => LET d == last'.da
              assets == ManifestAssets(compTable, catalog, stored, d)
          IN \A a \in assets :
                RedeliveryDue(d, a) =>
                    /\ \A pick \in ScanPicks(tracker) :
                          ManifestStatuses(tracker, assets, pick)[a] = "Revised"
                    /\ tracker'[d][a].File_Status = "REVISED"
                    /\ tracker'[d][a].Revision_Count = tracker[d][a].Revision_Count + 1]_vars

====
